---- MODULE Spec2Model ----
(***************************************************************************)
(* The sudoAMM v2 indexer: the event decoders and the five tables of       *)
(* src/lib/schema.ts and the per-event state projection of                 *)
(* indexers/sudoswap.indexer.ts (transform), with the in-memory set        *)
(* knownPairAddresses.                                                     *)
(*                                                                         *)
(* Numeric columns (numeric(78,0), integer) hold natural numbers; the      *)
(* program writes them with toString() and reads them back with BigInt(),  *)
(* which is exact on decimal text, so a column is modelled by its number.  *)
(* A block's timestamp is modelled by the block's number.                  *)
(***************************************************************************)
EXTENDS Integers, Sequences, FiniteSets, TLC

\* ------------------------------------------------------------------ bounds
\* Number of distinct (fresh) events the stream delivers.
MaxEvents == 2
\* Number of times the stream redelivers the event it delivered last.
MaxRedeliveries == 1
\* Width of one u256 limb in bits (128 in the program, scaled to TLC's integers).
LimbBits == 4

\* ------------------------------------------------------------------ texts
\* A text value is a record: a hex string "0x..." is its numeric value v, the
\* number w of hex digits written after "0x" and the case c of its letters; a
\* decimal string (bigint.toString()) is its value with c = "dec".  The absent
\* array element and the SQL null are texts of their own.
Hex(v, w, c) == [v |-> v, w |-> w, c |-> c]

undefined == [v |-> 0, w |-> 0, c |-> "undefined"]

null == [v |-> 0, w |-> 0, c |-> "null"]

\* bigint.toString(): the decimal text of n.
toString(n) == [v |-> n, w |-> 0, c |-> "dec"]

HexWidth == 64

\* A field element as the stream serialises it: zero-padded lower-case hex.
Felt(n) == Hex(n, HexWidth, "lower")

\* The literal "0x0" the projector writes into not-yet-known address columns.
ZeroX0 == Hex(0, 1, "lower")

toLowerCase(s) == [s EXCEPT !.c = IF s.c = "upper" THEN "lower" ELSE s.c]

\* arr[i] of a 0-indexed JavaScript array: undefined out of range.
At(arr, i) == IF i + 1 \in DOMAIN arr THEN arr[i + 1] ELSE undefined

\* ------------------------------------------------------ primitive decoders
TwoPow128 == 2 ^ LimbBits

hexToBigInt(hex) == IF hex = undefined THEN 0 ELSE hex.v

\* The composition with the two halves swapped.
decodeU256Swapped(low, high) == hexToBigInt(low) * TwoPow128 + hexToBigInt(high)

decodeU256(low, high) == hexToBigInt(high) * TwoPow128 + hexToBigInt(low)

feltToHex(felt) ==
  IF felt = undefined THEN Hex(0, HexWidth, "lower")
  ELSE Hex(felt.v, HexWidth, "lower")

decodeBool(felt) == hexToBigInt(felt) = 1

\* The span decoder that stops at the end of the array: it returns only the
\* ids whose two halves are both present and counts only what it read.
decodeSpanU256Bounded(data, startIndex) ==
  LET length == hexToBigInt(At(data, startIndex))
      rest == Len(data) - (startIndex + 1)
      present == IF rest < 0 THEN 0 ELSE rest \div 2
      read == IF length < present THEN length ELSE present
  IN  [tokens |-> [i \in 1..read |->
                     decodeU256(At(data, startIndex + 1 + 2 * (i - 1)),
                                At(data, startIndex + 2 + 2 * (i - 1)))],
       consumed |-> 1 + read * 2]

decodeSpanU256(data, startIndex) ==
  LET length == hexToBigInt(At(data, startIndex))
  IN  [tokens |-> [i \in 1..length |->
                     decodeU256(At(data, startIndex + 1 + 2 * (i - 1)),
                                At(data, startIndex + 2 + 2 * (i - 1)))],
       consumed |-> 1 + length * 2]

\* -------------------------------------------------------- event selectors
\* getSelector(name): a fixed-width digest of the name, one distinct value each.
EVENT_SELECTORS ==
  [NewERC721Pair |-> Felt(101), NewERC1155Pair |-> Felt(102),
   ERC20Deposit |-> Felt(103), NFTDeposit |-> Felt(104),
   ERC1155Deposit |-> Felt(105), ProtocolFeeRecipientUpdate |-> Felt(106),
   ProtocolFeeMultiplierUpdate |-> Felt(107),
   BondingCurveStatusUpdate |-> Felt(108), RouterStatusUpdate |-> Felt(109),
   CallTargetStatusUpdate |-> Felt(110),
   SpotPriceUpdate |-> Felt(111), DeltaUpdate |-> Felt(112),
   FeeUpdate |-> Felt(113), AssetRecipientChange |-> Felt(114),
   TokenDeposit |-> Felt(115), TokenWithdrawal |-> Felt(116),
   OwnershipTransferred |-> Felt(117),
   SwapNFTOutPairIds |-> Felt(118), SwapNFTInPairIds |-> Felt(119),
   NFTWithdrawalIds |-> Felt(120),
   SwapNFTOutPairCount |-> Felt(121), SwapNFTInPairCount |-> Felt(122),
   NFTWithdrawalCount |-> Felt(123)]

\* ---------------------------------------------------------- event decoders
decodeNewERC721Pair(keys, data) ==
  [poolAddress |-> feltToHex(At(keys, 1)),
   initialIds |-> decodeSpanU256(data, 0).tokens]

decodeNewERC1155Pair(keys, data) ==
  [poolAddress |-> feltToHex(At(keys, 1)),
   initialBalance |-> decodeU256(At(data, 0), At(data, 1))]

decodeERC20Deposit(keys, data) ==
  [poolAddress |-> feltToHex(At(keys, 1)),
   amount |-> decodeU256(At(data, 0), At(data, 1))]

decodeNFTDeposit(keys, data) ==
  [poolAddress |-> feltToHex(At(keys, 1)),
   ids |-> decodeSpanU256(data, 0).tokens]

decodeERC1155Deposit(keys, data) ==
  [poolAddress |-> feltToHex(At(keys, 1)),
   id |-> decodeU256(At(keys, 2), At(keys, 3)),
   amount |-> decodeU256(At(data, 0), At(data, 1))]

decodeProtocolFeeRecipientUpdate(keys, data) ==
  [recipientAddress |-> feltToHex(At(keys, 1))]

decodeProtocolFeeMultiplierUpdate(keys, data) ==
  [newMultiplier |-> decodeU256(At(data, 0), At(data, 1))]

decodeBondingCurveStatusUpdate(keys, data) ==
  [bondingCurve |-> feltToHex(At(keys, 1)), isAllowed |-> decodeBool(At(data, 0))]

decodeRouterStatusUpdate(keys, data) ==
  [router |-> feltToHex(At(keys, 1)), isAllowed |-> decodeBool(At(data, 0))]

decodeSpotPriceUpdate(keys, data) == [newSpotPrice |-> hexToBigInt(At(keys, 1))]

decodeDeltaUpdate(keys, data) == [newDelta |-> hexToBigInt(At(keys, 1))]

decodeFeeUpdate(keys, data) == [newFee |-> hexToBigInt(At(keys, 1))]

decodeAssetRecipientChange(keys, data) == [newRecipient |-> feltToHex(At(keys, 1))]

decodeTokenDeposit(keys, data) == [amount |-> decodeU256(At(data, 0), At(data, 1))]

decodeTokenWithdrawal(keys, data) == [amount |-> decodeU256(At(data, 0), At(data, 1))]

decodeOwnershipTransferred(keys, data) ==
  [previousOwner |-> feltToHex(At(keys, 1)), newOwner |-> feltToHex(At(keys, 2))]

decodeSwapNFTOutPairIds(keys, data) ==
  [amountIn |-> decodeU256(At(data, 0), At(data, 1)),
   ids |-> decodeSpanU256(data, 2).tokens]

decodeSwapNFTInPairIds(keys, data) ==
  [amountOut |-> decodeU256(At(data, 0), At(data, 1)),
   ids |-> decodeSpanU256(data, 2).tokens]

decodeNFTWithdrawalIds(keys, data) == [ids |-> decodeSpanU256(data, 0).tokens]

decodeSwapNFTOutPairCount(keys, data) ==
  [amountIn |-> decodeU256(At(data, 0), At(data, 1)),
   numNfts |-> decodeU256(At(data, 2), At(data, 3))]

decodeSwapNFTInPairCount(keys, data) ==
  [amountOut |-> decodeU256(At(data, 0), At(data, 1)),
   numNfts |-> decodeU256(At(data, 2), At(data, 3))]

decodeNFTWithdrawalCount(keys, data) ==
  [numNfts |-> decodeU256(At(data, 0), At(data, 1))]

\* ------------------------------------------------------------------ state
VARIABLES
  pools,               \* table pools: sequence of rows, address unique
  swaps,               \* table swaps: sequence of rows
  poolNfts,            \* table pool_nfts: sequence of rows
  poolUpdates,         \* table pool_updates: sequence of rows
  protocolSettings,    \* table protocol_settings: sequence of rows
  knownPairAddresses,  \* the in-memory set of known pair addresses
  delivered,           \* number of distinct events delivered so far
  last                 \* the event handled last, and the state it was applied to

vars == <<pools, swaps, poolNfts, poolUpdates, protocolSettings,
          knownPairAddresses, delivered, last>>

tables == <<pools, swaps, poolNfts, poolUpdates, protocolSettings>>

\* The five tables and the tracker, as one value.
Db == [pools |-> pools, swaps |-> swaps, poolNfts |-> poolNfts,
       poolUpdates |-> poolUpdates, protocolSettings |-> protocolSettings,
       knownPairAddresses |-> knownPairAddresses]

\* -------------------------------------------------------------- the stream
\* Contract addresses on the chain: the factory, two pair contracts, a bonding
\* curve / router, and two accounts.
FactoryNum == 1
PoolNums == {2, 3}
Contracts == {4}
Accounts == {5, 6}
Emitters == {FactoryNum} \cup PoolNums

\* Amounts, parameter values and token ids carried by events.
Amounts == {1, 2}
TokenIds == {1, 2}
IdLists == {<<>>, <<1>>, <<2>>, <<1, 1>>, <<1, 2>>, <<2, 1>>}

\* The stream delivers EventsPerBlock events in each block, in one transaction.
EventsPerBlock == 2
BlockOf(n) == 1 + (n \div EventsPerBlock)
IndexOf(n) == n % EventsPerBlock
TxHashOf(blockNumber) == Felt(700 + blockNumber)

\* Wire encodings (the chain's serialisation of u256 and Span<u256>).
U256(n) == <<Felt(n % TwoPow128), Felt(n \div TwoPow128)>>

RECURSIVE SpanBody(_)
SpanBody(ids) == IF ids = <<>> THEN <<>> ELSE U256(Head(ids)) \o SpanBody(Tail(ids))

Span(ids) == <<Felt(Len(ids))>> \o SpanBody(ids)

\* A span cut short on the wire: the declared count, then fewer than
\* 2 * count elements (here a count of two followed by the single id 1).
TruncatedSpans == {<<Felt(Len(ids) + 1)>> \o SpanBody(ids) : ids \in {<<1>>}}

Payload(sel, keys, data) == [keys |-> <<sel>> \o keys, data |-> data]

\* The payloads the chain emits, by event name.
PayloadsOf ==
  LET S == EVENT_SELECTORS IN
  [NewERC721Pair |->
     {Payload(S.NewERC721Pair, <<Felt(p)>>, Span(ids)) : p \in PoolNums, ids \in IdLists},
   NewERC1155Pair |->
     {Payload(S.NewERC1155Pair, <<Felt(p)>>, U256(a)) : p \in PoolNums, a \in {0} \cup Amounts},
   ERC20Deposit |->
     {Payload(S.ERC20Deposit, <<Felt(p)>>, U256(a)) : p \in PoolNums, a \in Amounts},
   NFTDeposit |->
     {Payload(S.NFTDeposit, <<Felt(p)>>, Span(ids)) : p \in PoolNums, ids \in IdLists},
   ERC1155Deposit |->
     {Payload(S.ERC1155Deposit, <<Felt(p)>> \o U256(1), U256(a)) :
        p \in PoolNums, a \in Amounts},
   ProtocolFeeRecipientUpdate |->
     {Payload(S.ProtocolFeeRecipientUpdate, <<Felt(a)>>, <<>>) : a \in Accounts},
   ProtocolFeeMultiplierUpdate |->
     {Payload(S.ProtocolFeeMultiplierUpdate, <<>>, U256(a)) : a \in Amounts},
   BondingCurveStatusUpdate |->
     {Payload(S.BondingCurveStatusUpdate, <<Felt(c)>>, <<Felt(b)>>) : c \in Contracts, b \in {0, 1}},
   RouterStatusUpdate |->
     {Payload(S.RouterStatusUpdate, <<Felt(c)>>, <<Felt(b)>>) : c \in Contracts, b \in {0, 1}},
   CallTargetStatusUpdate |->
     {Payload(S.CallTargetStatusUpdate, <<Felt(c)>>, <<Felt(1)>>) : c \in Contracts},
   SpotPriceUpdate |-> {Payload(S.SpotPriceUpdate, <<Felt(a)>>, <<>>) : a \in Amounts},
   DeltaUpdate |-> {Payload(S.DeltaUpdate, <<Felt(a)>>, <<>>) : a \in Amounts},
   FeeUpdate |-> {Payload(S.FeeUpdate, <<Felt(a)>>, <<>>) : a \in Amounts},
   AssetRecipientChange |->
     {Payload(S.AssetRecipientChange, <<Felt(a)>>, <<>>) : a \in Accounts},
   TokenDeposit |-> {Payload(S.TokenDeposit, <<>>, U256(a)) : a \in Amounts},
   TokenWithdrawal |-> {Payload(S.TokenWithdrawal, <<>>, U256(a)) : a \in Amounts},
   OwnershipTransferred |->
     {Payload(S.OwnershipTransferred, <<Felt(q[1]), Felt(q[2])>>, <<>>) :
        q \in {t \in Accounts \X Accounts : t[1] # t[2]}},
   SwapNFTOutPairIds |->
     {Payload(S.SwapNFTOutPairIds, <<>>, U256(a) \o Span(ids)) :
        a \in Amounts, ids \in IdLists}
     \cup {Payload(S.SwapNFTOutPairIds, <<>>, U256(1) \o span) : span \in TruncatedSpans},
   SwapNFTInPairIds |->
     {Payload(S.SwapNFTInPairIds, <<>>, U256(a) \o Span(ids)) :
        a \in Amounts, ids \in IdLists},
   NFTWithdrawalIds |-> {Payload(S.NFTWithdrawalIds, <<>>, Span(ids)) : ids \in IdLists},
   SwapNFTOutPairCount |->
     {Payload(S.SwapNFTOutPairCount, <<>>, U256(a) \o U256(c)) :
        a \in Amounts, c \in Amounts},
   SwapNFTInPairCount |->
     {Payload(S.SwapNFTInPairCount, <<>>, U256(a) \o U256(c)) :
        a \in Amounts, c \in Amounts},
   NFTWithdrawalCount |-> {Payload(S.NFTWithdrawalCount, <<>>, U256(c)) : c \in Amounts},
   NoKeys |-> {[keys |-> <<>>, data |-> <<>>]}]

Payloads == UNION {PayloadsOf[name] : name \in DOMAIN PayloadsOf}

Event(addr, payload, n) ==
  [address |-> Felt(addr), keys |-> payload.keys, data |-> payload.data,
   blockNumber |-> BlockOf(n), transactionHash |-> TxHashOf(BlockOf(n)),
   eventIndex |-> IndexOf(n)]

NoEvent ==
  [address |-> undefined, keys |-> <<>>, data |-> <<>>,
   blockNumber |-> 0, transactionHash |-> undefined, eventIndex |-> 0]

\* Redelivery hands over the event delivered last once more, unchanged.
IsRedelivery(ev) ==
  /\ last.kind # "init"
  /\ ev.blockNumber = last.ev.blockNumber
  /\ ev.transactionHash = last.ev.transactionHash
  /\ ev.eventIndex = last.ev.eventIndex

\* The factory's NewERC721Pair event for pool 2 with initial ids [1, 2] in
\* block 0, handled by an earlier run of the indexer.
SeedEvent ==
  [address |-> Felt(FactoryNum),
   keys |-> <<EVENT_SELECTORS.NewERC721Pair, Felt(2)>>, data |-> Span(<<1, 2>>),
   blockNumber |-> 0, transactionHash |-> TxHashOf(0), eventIndex |-> 0]

\* Re-indexing from the starting block hands over the event of the earlier run
\* again, on the database that run left (its Pool row is there).
Replayable ==
  IF /\ delivered < MaxEvents
     /\ \E i \in DOMAIN pools : /\ pools[i].blockNumber = SeedEvent.blockNumber
                                /\ pools[i].transactionHash = SeedEvent.transactionHash
     /\ ~IsRedelivery(SeedEvent)
  THEN {SeedEvent} ELSE {}

\* Only an event recorded whole is redelivered.
Redeliverable ==
  IF last.whole /\ last.attempt <= MaxRedeliveries THEN {last.ev} ELSE {}

\* The events the stream may hand to transform next: the next distinct event
\* (any contract, any payload of the given set), the earlier run's event, or
\* the last one again.
\* The factory deploys a pair at a new address: a distinct creation event never
\* names an address the tracker already knows (the same event may be redelivered).
CreatedOnce(p) ==
  (p.keys # <<>> /\ p.keys[1] \in {EVENT_SELECTORS.NewERC721Pair,
                                    EVENT_SELECTORS.NewERC1155Pair})
    => toLowerCase(feltToHex(At(p.keys, 1))) \notin knownPairAddresses

DeliverableOf(payloads) ==
       (IF delivered < MaxEvents
        THEN {Event(a, p, delivered) :
                a \in Emitters, p \in {q \in payloads : CreatedOnce(q)}}
        ELSE {})
  \cup Replayable
  \cup Redeliverable

Deliverable == DeliverableOf(Payloads)

\* --------------------------------------------------------- table writes
Max(a, b) == IF a > b THEN a ELSE b

Range(seq) == {seq[i] : i \in DOMAIN seq}

\* JSON.stringify(ids.map(id => id.toString())), and the null of that column.
JSONstringify(ids) == [c |-> "json", ids |-> ids]
NullJson == [c |-> "null", ids |-> <<>>]

\* The texts "true" and "false".
BoolText(b) == [v |-> IF b THEN 1 ELSE 0, w |-> 0, c |-> "bool"]

\* The unique index without its event_index column.
SameEventKeyWithoutIndex(r, row) ==
  /\ r.blockNumber = row.blockNumber
  /\ r.transactionHash = row.transactionHash

\* The unique index (block_number, transaction_hash, event_index) of the
\* append-only tables.
SameEventKey(r, row) ==
  /\ r.blockNumber = row.blockNumber
  /\ r.transactionHash = row.transactionHash
  /\ r.eventIndex = row.eventIndex

\* The insert without its conflict clause, on a table without the unique index.
insertValues(table, row) == Append(table, row)

\* The insert whose conflict clause overwrites the row carrying the same key.
onConflictDoUpdate(table, row) ==
  IF \E i \in DOMAIN table : SameEventKey(table[i], row)
  THEN [i \in DOMAIN table |-> IF SameEventKey(table[i], row) THEN row ELSE table[i]]
  ELSE Append(table, row)

\* db.insert(table).values(row).onConflictDoNothing() on an append-only table.
onConflictDoNothing(table, row) ==
  IF \E i \in DOMAIN table : SameEventKey(table[i], row) THEN table
  ELSE Append(table, row)

\* The inventory insert without its conflict clause: every listed id is a row.
insertPoolNftsValues(table, rows) == table \o rows

\* The inventory insert that checks a row only against the rows the table held
\* before the statement, not against the rows of the same statement.
insertPoolNftsAgainstTable(table, rows) ==
  LET fresh(row) == ~\E i \in DOMAIN table :
                       /\ table[i].poolAddress = row.poolAddress
                       /\ table[i].tokenId = row.tokenId
  IN  table \o SelectSeq(rows, fresh)

\* db.insert(poolNfts).values(rows).onConflictDoNothing(): the unique index is
\* (pool_address, token_id); a row conflicting with an earlier row of the same
\* statement is skipped as well.
RECURSIVE insertPoolNfts(_, _)
insertPoolNfts(table, rows) ==
  IF rows = <<>> THEN table
  ELSE LET row == Head(rows)
           conflict == \E i \in DOMAIN table :
                          /\ table[i].poolAddress = row.poolAddress
                          /\ table[i].tokenId = row.tokenId
       IN  insertPoolNfts(IF conflict THEN table ELSE Append(table, row), Tail(rows))

nftRows(poolAddress, ids, blockNumber) ==
  [i \in DOMAIN ids |->
     [poolAddress |-> poolAddress, tokenId |-> ids[i], blockNumber |-> blockNumber]]

\* The delete whose where clause names the token ids only.
deletePoolNftsOfAnyPool(table, poolAddress, tokenIdsToRemove) ==
  LET keep(r) == r.tokenId \notin Range(tokenIdsToRemove)
  IN  SelectSeq(table, keep)

\* db.delete(poolNfts).where(and(eq(poolAddress, a), inArray(tokenId, ids)))
deletePoolNfts(table, poolAddress, tokenIdsToRemove) ==
  LET keep(r) == ~(r.poolAddress = poolAddress /\ r.tokenId \in Range(tokenIdsToRemove))
  IN  SelectSeq(table, keep)

\* db.select().from(pools).where(eq(pools.address, a)).limit(1)
\* The select that does not wait for the writes of the event before: it reads
\* the pools table as it was before that event.
selectPoolBeforePreviousWrites(address) ==
  LET hit(r) == r.address = address
      rows == SelectSeq(last.pre.pools, hit)
  IN  IF rows = <<>> THEN <<>> ELSE <<rows[1]>>

selectPool(address) ==
  LET hit(r) == r.address = address
      rows == SelectSeq(pools, hit)
  IN  IF rows = <<>> THEN <<>> ELSE <<rows[1]>>

\* The rows of the pools table.
PoolRows == {pools[i] : i \in DOMAIN pools}

\* db.update(pools).set(...).where(eq(pools.address, a)): set[r] is the row r
\* with the assigned columns replaced.
updatePools(address, set) ==
  [i \in DOMAIN pools |-> IF pools[i].address = address THEN set[pools[i]] ELSE pools[i]]

\* ----------------------------------------------------- transform: prelude
\* Default configuration: apibara.config.ts factoryAddress.
factoryAddress == Hex(FactoryNum, HexWidth, "lower")

\* factoryAddress.toLowerCase(), "0x"-prefixed (the configured text has the prefix).
normalizedFactoryAddress == toLowerCase(factoryAddress)

eventAddress(ev) == toLowerCase(feltToHex(ev.address))

selector(ev) == feltToHex(At(ev.keys, 0))

\* The factory guard that also lets known pairs through.
isFromFactoryOrPair(ev) ==
  eventAddress(ev) = normalizedFactoryAddress \/ eventAddress(ev) \in knownPairAddresses

\* The factory guard that takes every emitter for the factory.
isFromFactoryAnyEmitter(ev) == TRUE

isFromFactory(ev) == eventAddress(ev) = normalizedFactoryAddress

\* The pair guard that takes every contract but the factory for a pair.
isFromPairUnchecked(ev) == eventAddress(ev) # normalizedFactoryAddress

isFromPair(ev) == eventAddress(ev) \in knownPairAddresses

\* Reaching the dispatch chain: keys is not empty, the source is the factory or
\* a known pair.
Dispatched(ev) == Len(ev.keys) # 0 /\ (isFromFactory(ev) \/ isFromPair(ev))

blockTimestamp(ev) == ev.blockNumber

\* What an event that changes nothing leaves in `last`: its address and keys[0],
\* all that transform reads of an event it ignores.
Stripped(ev) == [ev EXCEPT !.keys = IF ev.keys = <<>> THEN <<>> ELSE <<ev.keys[1]>>,
                           !.data = <<>>]

\* Bookkeeping of one loop iteration: the event handled, the state before it.
Handled(kind, ev, recorded) ==
  /\ last' = [kind |-> kind, ev |-> recorded, whole |-> recorded = ev,
              attempt |-> IF IsRedelivery(ev) THEN last.attempt + 1 ELSE 1,
              pre |-> Db]
  /\ delivered' = IF IsRedelivery(ev) THEN delivered ELSE delivered + 1

\* ------------------------------------------------ transform: factory events
\* The creation branch that forgets to register the new pair.
knownPairAddressesUnchanged(poolAddress) == knownPairAddresses

\* knownPairAddresses.add(decoded.poolAddress.toLowerCase())
knownPairAddressesAdd(poolAddress) == knownPairAddresses \cup {toLowerCase(poolAddress)}

\* The values of db.insert(pools) in the two creation branches; updatedAt takes
\* the column default (the wall clock, written 0), tokenBalance its default "0".
newPoolRow(poolAddress, nftType, nftCount, isActive, ev) ==
  [address |-> poolAddress, nftAddress |-> ZeroX0, tokenAddress |-> ZeroX0,
   bondingCurve |-> ZeroX0, poolType |-> "TRADE", nftType |-> nftType,
   propertyChecker |-> null, erc1155Id |-> null,
   spotPrice |-> 0, delta |-> 0, fee |-> 0, owner |-> ZeroX0,
   assetRecipient |-> null, tokenBalance |-> 0,
   nftCount |-> nftCount, isActive |-> isActive,
   createdAt |-> blockTimestamp(ev), updatedAt |-> 0,
   blockNumber |-> ev.blockNumber, transactionHash |-> ev.transactionHash]

\* The conflict clause that also resets the balance to the inserted default.
NewPairConflictSetDefaults(r, nftCount, ts) ==
  [r EXCEPT !.nftCount = nftCount, !.tokenBalance = 0, !.updatedAt = ts]

\* .onConflictDoUpdate({target: pools.address, set: {nftCount, updatedAt}})
NewPairConflictSet(r, nftCount, ts) == [r EXCEPT !.nftCount = nftCount, !.updatedAt = ts]

insertPoolOnConflictDoUpdate(row, ts) ==
  LET set == [r \in PoolRows |-> NewPairConflictSet(r, row.nftCount, ts)]
  IN  IF \E i \in DOMAIN pools : pools[i].address = row.address
      THEN updatePools(row.address, set)
      ELSE Append(pools, row)

NewERC721Pair ==
  \E ev \in DeliverableOf(PayloadsOf.NewERC721Pair) :
  /\ Dispatched(ev)
  /\ selector(ev) = EVENT_SELECTORS.NewERC721Pair /\ isFromFactory(ev)
  /\ LET decoded == decodeNewERC721Pair(ev.keys, ev.data)
         n == Len(decoded.initialIds)
     IN  /\ knownPairAddresses' = knownPairAddressesAdd(decoded.poolAddress)
         /\ pools' = insertPoolOnConflictDoUpdate(
                       newPoolRow(decoded.poolAddress, "ERC721", n, n > 0, ev),
                       blockTimestamp(ev))
         /\ poolNfts' = IF n > 0
                        THEN insertPoolNfts(poolNfts,
                               nftRows(decoded.poolAddress, decoded.initialIds, ev.blockNumber))
                        ELSE poolNfts
  /\ UNCHANGED <<swaps, poolUpdates, protocolSettings>>
  /\ Handled("NewERC721Pair", ev, ev)

NewERC1155Pair ==
  \E ev \in DeliverableOf(PayloadsOf.NewERC1155Pair) :
  /\ Dispatched(ev)
  /\ selector(ev) = EVENT_SELECTORS.NewERC1155Pair /\ isFromFactory(ev)
  /\ LET decoded == decodeNewERC1155Pair(ev.keys, ev.data)
     IN  /\ knownPairAddresses' = knownPairAddressesAdd(decoded.poolAddress)
         /\ pools' = insertPoolOnConflictDoUpdate(
                       newPoolRow(decoded.poolAddress, "ERC1155",
                                  decoded.initialBalance, decoded.initialBalance > 0, ev),
                       blockTimestamp(ev))
  /\ UNCHANGED <<swaps, poolNfts, poolUpdates, protocolSettings>>
  /\ Handled("NewERC1155Pair", ev, ev)

\* The deposit that stores the deposited amount in place of the sum.
ERC20DepositSetOverwrites(r, pool0, decoded, ts) ==
  [r EXCEPT !.tokenBalance = decoded.amount,
            !.isActive = TRUE, !.updatedAt = ts]

ERC20DepositSet(r, pool0, decoded, ts) ==
  [r EXCEPT !.tokenBalance = pool0.tokenBalance + decoded.amount,
            !.isActive = TRUE, !.updatedAt = ts]

\* The deposit branch that inserts a Pool row when the target has none.
ERC20DepositUpserting ==
  \E ev \in DeliverableOf(PayloadsOf.ERC20Deposit) :
  /\ Dispatched(ev)
  /\ selector(ev) = EVENT_SELECTORS.ERC20Deposit /\ isFromFactory(ev)
  /\ LET decoded == decodeERC20Deposit(ev.keys, ev.data)
         pool == selectPool(decoded.poolAddress)
         set == [r \in PoolRows |-> ERC20DepositSet(r, pool[1], decoded, blockTimestamp(ev))]
     IN  pools' = IF Len(pool) > 0 THEN updatePools(decoded.poolAddress, set)
                  ELSE Append(pools, [newPoolRow(decoded.poolAddress, "ERC721", 0, TRUE, ev)
                                        EXCEPT !.tokenBalance = decoded.amount])
  /\ UNCHANGED <<swaps, poolNfts, poolUpdates, protocolSettings, knownPairAddresses>>
  /\ Handled("ERC20Deposit", ev, ev)

ERC20Deposit ==
  \E ev \in DeliverableOf(PayloadsOf.ERC20Deposit) :
  /\ Dispatched(ev)
  /\ selector(ev) = EVENT_SELECTORS.ERC20Deposit /\ isFromFactory(ev)
  /\ LET decoded == decodeERC20Deposit(ev.keys, ev.data)
         pool == selectPool(decoded.poolAddress)
         set == [r \in PoolRows |-> ERC20DepositSet(r, pool[1], decoded, blockTimestamp(ev))]
     IN  pools' = IF Len(pool) > 0 THEN updatePools(decoded.poolAddress, set) ELSE pools
  /\ UNCHANGED <<swaps, poolNfts, poolUpdates, protocolSettings, knownPairAddresses>>
  /\ Handled("ERC20Deposit", ev, ev)

NFTDepositSet(r, pool0, decoded, ts) ==
  [r EXCEPT !.nftCount = pool0.nftCount + Len(decoded.ids),
            !.isActive = TRUE, !.updatedAt = ts]

NFTDeposit ==
  \E ev \in DeliverableOf(PayloadsOf.NFTDeposit) :
  /\ Dispatched(ev)
  /\ selector(ev) = EVENT_SELECTORS.NFTDeposit /\ isFromFactory(ev)
  /\ LET decoded == decodeNFTDeposit(ev.keys, ev.data)
         pool == selectPool(decoded.poolAddress)
         set == [r \in PoolRows |-> NFTDepositSet(r, pool[1], decoded, blockTimestamp(ev))]
     IN  IF Len(decoded.ids) > 0
         THEN /\ poolNfts' = insertPoolNfts(poolNfts,
                               nftRows(decoded.poolAddress, decoded.ids, ev.blockNumber))
              /\ pools' = IF Len(pool) > 0 THEN updatePools(decoded.poolAddress, set)
                          ELSE pools
         ELSE UNCHANGED <<poolNfts, pools>>
  /\ UNCHANGED <<swaps, poolUpdates, protocolSettings, knownPairAddresses>>
  /\ Handled("NFTDeposit", ev, ev)

ERC1155DepositSet(r, pool0, decoded, ts) ==
  [r EXCEPT !.nftCount = pool0.nftCount + decoded.amount,
            !.erc1155Id = toString(decoded.id),
            !.isActive = TRUE, !.updatedAt = ts]

ERC1155Deposit ==
  \E ev \in DeliverableOf(PayloadsOf.ERC1155Deposit) :
  /\ Dispatched(ev)
  /\ selector(ev) = EVENT_SELECTORS.ERC1155Deposit /\ isFromFactory(ev)
  /\ LET decoded == decodeERC1155Deposit(ev.keys, ev.data)
         pool == selectPool(decoded.poolAddress)
         set == [r \in PoolRows |-> ERC1155DepositSet(r, pool[1], decoded, blockTimestamp(ev))]
     IN  pools' = IF Len(pool) > 0 THEN updatePools(decoded.poolAddress, set) ELSE pools
  /\ UNCHANGED <<swaps, poolNfts, poolUpdates, protocolSettings, knownPairAddresses>>
  /\ Handled("ERC1155Deposit", ev, ev)

settingRow(settingType, address, value, ev) ==
  [settingType |-> settingType, address |-> address, value |-> value,
   blockNumber |-> ev.blockNumber, transactionHash |-> ev.transactionHash,
   eventIndex |-> ev.eventIndex]

ProtocolFeeRecipientUpdate ==
  \E ev \in DeliverableOf(PayloadsOf.ProtocolFeeRecipientUpdate) :
  /\ Dispatched(ev)
  /\ selector(ev) = EVENT_SELECTORS.ProtocolFeeRecipientUpdate /\ isFromFactory(ev)
  /\ LET decoded == decodeProtocolFeeRecipientUpdate(ev.keys, ev.data)
     IN  protocolSettings' = onConflictDoNothing(protocolSettings,
           settingRow("FEE_RECIPIENT", decoded.recipientAddress, decoded.recipientAddress, ev))
  /\ UNCHANGED <<pools, swaps, poolNfts, poolUpdates, knownPairAddresses>>
  /\ Handled("ProtocolFeeRecipientUpdate", ev, ev)

ProtocolFeeMultiplierUpdate ==
  \E ev \in DeliverableOf(PayloadsOf.ProtocolFeeMultiplierUpdate) :
  /\ Dispatched(ev)
  /\ selector(ev) = EVENT_SELECTORS.ProtocolFeeMultiplierUpdate /\ isFromFactory(ev)
  /\ LET decoded == decodeProtocolFeeMultiplierUpdate(ev.keys, ev.data)
     IN  protocolSettings' = onConflictDoNothing(protocolSettings,
           settingRow("FEE_MULTIPLIER", null, toString(decoded.newMultiplier), ev))
  /\ UNCHANGED <<pools, swaps, poolNfts, poolUpdates, knownPairAddresses>>
  /\ Handled("ProtocolFeeMultiplierUpdate", ev, ev)

BondingCurveStatusUpdate ==
  \E ev \in DeliverableOf(PayloadsOf.BondingCurveStatusUpdate) :
  /\ Dispatched(ev)
  /\ selector(ev) = EVENT_SELECTORS.BondingCurveStatusUpdate /\ isFromFactory(ev)
  /\ LET decoded == decodeBondingCurveStatusUpdate(ev.keys, ev.data)
     IN  protocolSettings' = onConflictDoNothing(protocolSettings,
           settingRow("CURVE_STATUS", decoded.bondingCurve, BoolText(decoded.isAllowed), ev))
  /\ UNCHANGED <<pools, swaps, poolNfts, poolUpdates, knownPairAddresses>>
  /\ Handled("BondingCurveStatusUpdate", ev, ev)

RouterStatusUpdate ==
  \E ev \in DeliverableOf(PayloadsOf.RouterStatusUpdate) :
  /\ Dispatched(ev)
  /\ selector(ev) = EVENT_SELECTORS.RouterStatusUpdate /\ isFromFactory(ev)
  /\ LET decoded == decodeRouterStatusUpdate(ev.keys, ev.data)
     IN  protocolSettings' = onConflictDoNothing(protocolSettings,
           settingRow("ROUTER_STATUS", decoded.router, BoolText(decoded.isAllowed), ev))
  /\ UNCHANGED <<pools, swaps, poolNfts, poolUpdates, knownPairAddresses>>
  /\ Handled("RouterStatusUpdate", ev, ev)

\* --------------------------------------------- transform: pair parameters
updateRow(poolAddress, updateType, oldValue, newValue, ev) ==
  [poolAddress |-> poolAddress, updateType |-> updateType,
   oldValue |-> oldValue, newValue |-> newValue,
   blockNumber |-> ev.blockNumber, transactionHash |-> ev.transactionHash,
   eventIndex |-> ev.eventIndex]

\* The old value defaulting to the column default "0" instead of null.
SpotPriceUpdateOldValueDefaulted(pool) ==
  IF Len(pool) > 0 THEN toString(pool[1].spotPrice) ELSE toString(0)

\* The spot-price update that writes the neighbouring column.
SpotPriceUpdateSetWrongColumn(r, decoded, ts) ==
  [r EXCEPT !.delta = decoded.newSpotPrice, !.updatedAt = ts]

\* const oldValue = pool.length > 0 ? pool[0].spotPrice : null
SpotPriceUpdateOldValue(pool) == IF Len(pool) > 0 THEN toString(pool[1].spotPrice) ELSE null

SpotPriceUpdateSet(r, decoded, ts) == [r EXCEPT !.spotPrice = decoded.newSpotPrice, !.updatedAt = ts]

SpotPriceUpdate ==
  \E ev \in DeliverableOf(PayloadsOf.SpotPriceUpdate) :
  /\ Dispatched(ev)
  /\ selector(ev) = EVENT_SELECTORS.SpotPriceUpdate /\ isFromPair(ev)
  /\ LET decoded == decodeSpotPriceUpdate(ev.keys, ev.data)
         pool == selectPool(eventAddress(ev))
         oldValue == SpotPriceUpdateOldValue(pool)
         set == [r \in PoolRows |-> SpotPriceUpdateSet(r, decoded, blockTimestamp(ev))]
     IN  /\ pools' = updatePools(eventAddress(ev), set)
         /\ poolUpdates' = onConflictDoNothing(poolUpdates,
               updateRow(eventAddress(ev), "SPOT_PRICE", oldValue, toString(decoded.newSpotPrice), ev))
  /\ UNCHANGED <<swaps, poolNfts, protocolSettings, knownPairAddresses>>
  /\ Handled("SpotPriceUpdate", ev, ev)

\* const oldValue = pool.length > 0 ? pool[0].delta : null
DeltaUpdateOldValue(pool) == IF Len(pool) > 0 THEN toString(pool[1].delta) ELSE null

\* The delta update that adds the event's value to the stored one.
DeltaUpdateSetAccumulates(r, decoded, ts) ==
  [r EXCEPT !.delta = r.delta + decoded.newDelta, !.updatedAt = ts]

DeltaUpdateSet(r, decoded, ts) == [r EXCEPT !.delta = decoded.newDelta, !.updatedAt = ts]

DeltaUpdate ==
  \E ev \in DeliverableOf(PayloadsOf.DeltaUpdate) :
  /\ Dispatched(ev)
  /\ selector(ev) = EVENT_SELECTORS.DeltaUpdate /\ isFromPair(ev)
  /\ LET decoded == decodeDeltaUpdate(ev.keys, ev.data)
         pool == selectPool(eventAddress(ev))
         oldValue == DeltaUpdateOldValue(pool)
         set == [r \in PoolRows |-> DeltaUpdateSet(r, decoded, blockTimestamp(ev))]
     IN  /\ pools' = updatePools(eventAddress(ev), set)
         /\ poolUpdates' = onConflictDoNothing(poolUpdates,
               updateRow(eventAddress(ev), "DELTA", oldValue, toString(decoded.newDelta), ev))
  /\ UNCHANGED <<swaps, poolNfts, protocolSettings, knownPairAddresses>>
  /\ Handled("DeltaUpdate", ev, ev)

\* const oldValue = pool.length > 0 ? pool[0].fee : null
FeeUpdateOldValue(pool) == IF Len(pool) > 0 THEN toString(pool[1].fee) ELSE null

\* The fee update that stamps the row without writing the fee.
FeeUpdateSetStampsOnly(r, decoded, ts) ==
  [r EXCEPT !.updatedAt = ts]

FeeUpdateSet(r, decoded, ts) == [r EXCEPT !.fee = decoded.newFee, !.updatedAt = ts]

FeeUpdate ==
  \E ev \in DeliverableOf(PayloadsOf.FeeUpdate) :
  /\ Dispatched(ev)
  /\ selector(ev) = EVENT_SELECTORS.FeeUpdate /\ isFromPair(ev)
  /\ LET decoded == decodeFeeUpdate(ev.keys, ev.data)
         pool == selectPool(eventAddress(ev))
         oldValue == FeeUpdateOldValue(pool)
         set == [r \in PoolRows |-> FeeUpdateSet(r, decoded, blockTimestamp(ev))]
     IN  /\ pools' = updatePools(eventAddress(ev), set)
         /\ poolUpdates' = onConflictDoNothing(poolUpdates,
               updateRow(eventAddress(ev), "FEE", oldValue, toString(decoded.newFee), ev))
  /\ UNCHANGED <<swaps, poolNfts, protocolSettings, knownPairAddresses>>
  /\ Handled("FeeUpdate", ev, ev)

\* const oldValue = pool.length > 0 ? pool[0].assetRecipient : null
AssetRecipientChangeOldValue(pool) == IF Len(pool) > 0 THEN pool[1].assetRecipient ELSE null

AssetRecipientChangeSet(r, decoded, ts) == [r EXCEPT !.assetRecipient = decoded.newRecipient, !.updatedAt = ts]

AssetRecipientChange ==
  \E ev \in DeliverableOf(PayloadsOf.AssetRecipientChange) :
  /\ Dispatched(ev)
  /\ selector(ev) = EVENT_SELECTORS.AssetRecipientChange /\ isFromPair(ev)
  /\ LET decoded == decodeAssetRecipientChange(ev.keys, ev.data)
         pool == selectPool(eventAddress(ev))
         oldValue == AssetRecipientChangeOldValue(pool)
         set == [r \in PoolRows |-> AssetRecipientChangeSet(r, decoded, blockTimestamp(ev))]
     IN  /\ pools' = updatePools(eventAddress(ev), set)
         /\ poolUpdates' = onConflictDoNothing(poolUpdates,
               updateRow(eventAddress(ev), "ASSET_RECIPIENT", oldValue, decoded.newRecipient, ev))
  /\ UNCHANGED <<swaps, poolNfts, protocolSettings, knownPairAddresses>>
  /\ Handled("AssetRecipientChange", ev, ev)

TokenDepositSet(r, pool0, decoded, ts) ==
  [r EXCEPT !.tokenBalance = pool0.tokenBalance + decoded.amount,
            !.isActive = TRUE, !.updatedAt = ts]

TokenDeposit ==
  \E ev \in DeliverableOf(PayloadsOf.TokenDeposit) :
  /\ Dispatched(ev)
  /\ selector(ev) = EVENT_SELECTORS.TokenDeposit /\ isFromPair(ev)
  /\ LET decoded == decodeTokenDeposit(ev.keys, ev.data)
         pool == selectPool(eventAddress(ev))
         set == [r \in PoolRows |-> TokenDepositSet(r, pool[1], decoded, blockTimestamp(ev))]
     IN  pools' = IF Len(pool) > 0 THEN updatePools(eventAddress(ev), set) ELSE pools
  /\ UNCHANGED <<swaps, poolNfts, poolUpdates, protocolSettings, knownPairAddresses>>
  /\ Handled("TokenDeposit", ev, ev)

\* The withdrawal without the floor at zero.
TokenWithdrawalSetUnfloored(r, pool0, decoded, ts) ==
  [r EXCEPT !.tokenBalance = pool0.tokenBalance - decoded.amount, !.updatedAt = ts]

\* The withdrawal that empties the balance whatever the amount.
TokenWithdrawalSetEmptied(r, pool0, decoded, ts) ==
  [r EXCEPT !.tokenBalance = 0, !.updatedAt = ts]

TokenWithdrawalSet(r, pool0, decoded, ts) ==
  [r EXCEPT !.tokenBalance = IF pool0.tokenBalance > decoded.amount
                             THEN pool0.tokenBalance - decoded.amount ELSE 0,
            !.updatedAt = ts]

TokenWithdrawal ==
  \E ev \in DeliverableOf(PayloadsOf.TokenWithdrawal) :
  /\ Dispatched(ev)
  /\ selector(ev) = EVENT_SELECTORS.TokenWithdrawal /\ isFromPair(ev)
  /\ LET decoded == decodeTokenWithdrawal(ev.keys, ev.data)
         pool == selectPool(eventAddress(ev))
         set == [r \in PoolRows |-> TokenWithdrawalSet(r, pool[1], decoded, blockTimestamp(ev))]
     IN  pools' = IF Len(pool) > 0 THEN updatePools(eventAddress(ev), set) ELSE pools
  /\ UNCHANGED <<swaps, poolNfts, poolUpdates, protocolSettings, knownPairAddresses>>
  /\ Handled("TokenWithdrawal", ev, ev)

\* The owner update that writes the event's previous owner.
OwnershipTransferredSetPrevious(r, decoded, ts) ==
  [r EXCEPT !.owner = decoded.previousOwner, !.updatedAt = ts]

OwnershipTransferredSet(r, decoded, ts) ==
  [r EXCEPT !.owner = decoded.newOwner, !.updatedAt = ts]

OwnershipTransferred ==
  \E ev \in DeliverableOf(PayloadsOf.OwnershipTransferred) :
  /\ Dispatched(ev)
  /\ selector(ev) = EVENT_SELECTORS.OwnershipTransferred /\ isFromPair(ev)
  /\ LET decoded == decodeOwnershipTransferred(ev.keys, ev.data)
         set == [r \in PoolRows |-> OwnershipTransferredSet(r, decoded, blockTimestamp(ev))]
     IN  /\ pools' = updatePools(eventAddress(ev), set)
         /\ poolUpdates' = onConflictDoNothing(poolUpdates,
               updateRow(eventAddress(ev), "OWNER", decoded.previousOwner,
                         decoded.newOwner, ev))
  /\ UNCHANGED <<swaps, poolNfts, protocolSettings, knownPairAddresses>>
  /\ Handled("OwnershipTransferred", ev, ev)

\* ------------------------------------------------- transform: ERC721 swaps
swapRow(poolAddress, direction, tokenAmount, nftCount, nftIds, ev) ==
  [poolAddress |-> poolAddress, direction |-> direction,
   tokenAmount |-> tokenAmount, nftCount |-> nftCount, nftIds |-> nftIds,
   blockNumber |-> ev.blockNumber, transactionHash |-> ev.transactionHash,
   eventIndex |-> ev.eventIndex]

SwapNFTOutPairIdsSet(r, pool0, decoded, ts) ==
  LET newNftCount == Max(0, pool0.nftCount - Len(decoded.ids))
  IN  [r EXCEPT !.nftCount = newNftCount,
                !.tokenBalance = pool0.tokenBalance + decoded.amountIn,
                !.isActive = newNftCount > 0, !.updatedAt = ts]

SwapNFTOutPairIds ==
  \E ev \in DeliverableOf(PayloadsOf.SwapNFTOutPairIds) :
  /\ Dispatched(ev)
  /\ selector(ev) = EVENT_SELECTORS.SwapNFTOutPairIds /\ isFromPair(ev)
  /\ LET decoded == decodeSwapNFTOutPairIds(ev.keys, ev.data)
         pool == selectPool(eventAddress(ev))
         set == [r \in PoolRows |-> SwapNFTOutPairIdsSet(r, pool[1], decoded, blockTimestamp(ev))]
     IN  /\ swaps' = onConflictDoNothing(swaps,
               swapRow(eventAddress(ev), "BUY", decoded.amountIn, Len(decoded.ids),
                       JSONstringify(decoded.ids), ev))
         /\ poolNfts' = IF Len(decoded.ids) > 0
                        THEN deletePoolNfts(poolNfts, eventAddress(ev), decoded.ids)
                        ELSE poolNfts
         /\ pools' = IF Len(pool) > 0 THEN updatePools(eventAddress(ev), set) ELSE pools
  /\ UNCHANGED <<poolUpdates, protocolSettings, knownPairAddresses>>
  /\ Handled("SwapNFTOutPairIds", ev, ev)

SwapNFTInPairIdsSet(r, pool0, decoded, ts) ==
  [r EXCEPT !.nftCount = pool0.nftCount + Len(decoded.ids),
            !.tokenBalance = IF pool0.tokenBalance > decoded.amountOut
                             THEN pool0.tokenBalance - decoded.amountOut ELSE 0,
            !.isActive = TRUE, !.updatedAt = ts]

SwapNFTInPairIds ==
  \E ev \in DeliverableOf(PayloadsOf.SwapNFTInPairIds) :
  /\ Dispatched(ev)
  /\ selector(ev) = EVENT_SELECTORS.SwapNFTInPairIds /\ isFromPair(ev)
  /\ LET decoded == decodeSwapNFTInPairIds(ev.keys, ev.data)
         pool == selectPool(eventAddress(ev))
         set == [r \in PoolRows |-> SwapNFTInPairIdsSet(r, pool[1], decoded, blockTimestamp(ev))]
     IN  /\ swaps' = onConflictDoNothing(swaps,
               swapRow(eventAddress(ev), "SELL", decoded.amountOut, Len(decoded.ids),
                       JSONstringify(decoded.ids), ev))
         /\ poolNfts' = IF Len(decoded.ids) > 0
                        THEN insertPoolNfts(poolNfts,
                               nftRows(eventAddress(ev), decoded.ids, ev.blockNumber))
                        ELSE poolNfts
         /\ pools' = IF Len(pool) > 0 THEN updatePools(eventAddress(ev), set) ELSE pools
  /\ UNCHANGED <<poolUpdates, protocolSettings, knownPairAddresses>>
  /\ Handled("SwapNFTInPairIds", ev, ev)

\* The withdrawal that derives isActive from the NFT count alone, as a buy does.
NFTWithdrawalIdsSetCountOnly(r, pool0, decoded, ts) ==
  LET newNftCount == Max(0, pool0.nftCount - Len(decoded.ids))
  IN  [r EXCEPT !.nftCount = newNftCount, !.isActive = newNftCount > 0, !.updatedAt = ts]

NFTWithdrawalIdsSet(r, pool0, decoded, ts) ==
  LET newNftCount == Max(0, pool0.nftCount - Len(decoded.ids))
  IN  [r EXCEPT !.nftCount = newNftCount,
                !.isActive = newNftCount > 0 \/ pool0.tokenBalance > 0,
                !.updatedAt = ts]

NFTWithdrawalIds ==
  \E ev \in DeliverableOf(PayloadsOf.NFTWithdrawalIds) :
  /\ Dispatched(ev)
  /\ selector(ev) = EVENT_SELECTORS.NFTWithdrawalIds /\ isFromPair(ev)
  /\ LET decoded == decodeNFTWithdrawalIds(ev.keys, ev.data)
         pool == selectPool(eventAddress(ev))
         set == [r \in PoolRows |-> NFTWithdrawalIdsSet(r, pool[1], decoded, blockTimestamp(ev))]
     IN  /\ poolNfts' = IF Len(decoded.ids) > 0
                        THEN deletePoolNfts(poolNfts, eventAddress(ev), decoded.ids)
                        ELSE poolNfts
         /\ pools' = IF Len(pool) > 0 THEN updatePools(eventAddress(ev), set) ELSE pools
  /\ UNCHANGED <<swaps, poolUpdates, protocolSettings, knownPairAddresses>>
  /\ Handled("NFTWithdrawalIds", ev, ev)

\* ------------------------------------------------ transform: ERC1155 swaps
\* The count-shape buy without the floor at zero.
SwapNFTOutPairCountSetUnfloored(r, pool0, decoded, ts) ==
  LET newNftCount == pool0.nftCount - decoded.numNfts
  IN  [r EXCEPT !.nftCount = newNftCount,
                !.tokenBalance = pool0.tokenBalance + decoded.amountIn,
                !.isActive = newNftCount > 0, !.updatedAt = ts]

SwapNFTOutPairCountSet(r, pool0, decoded, ts) ==
  LET newNftCount == Max(0, pool0.nftCount - decoded.numNfts)
  IN  [r EXCEPT !.nftCount = newNftCount,
                !.tokenBalance = pool0.tokenBalance + decoded.amountIn,
                !.isActive = newNftCount > 0, !.updatedAt = ts]

SwapNFTOutPairCount ==
  \E ev \in DeliverableOf(PayloadsOf.SwapNFTOutPairCount) :
  /\ Dispatched(ev)
  /\ selector(ev) = EVENT_SELECTORS.SwapNFTOutPairCount /\ isFromPair(ev)
  /\ LET decoded == decodeSwapNFTOutPairCount(ev.keys, ev.data)
         pool == selectPool(eventAddress(ev))
         set == [r \in PoolRows |-> SwapNFTOutPairCountSet(r, pool[1], decoded, blockTimestamp(ev))]
     IN  /\ swaps' = onConflictDoNothing(swaps,
               swapRow(eventAddress(ev), "BUY", decoded.amountIn, decoded.numNfts,
                       NullJson, ev))
         /\ pools' = IF Len(pool) > 0 THEN updatePools(eventAddress(ev), set) ELSE pools
  /\ UNCHANGED <<poolNfts, poolUpdates, protocolSettings, knownPairAddresses>>
  /\ Handled("SwapNFTOutPairCount", ev, ev)

\* The count-shape sell that leaves isActive as it was.
SwapNFTInPairCountSetKeepsActive(r, pool0, decoded, ts) ==
  [r EXCEPT !.nftCount = pool0.nftCount + decoded.numNfts,
            !.tokenBalance = IF pool0.tokenBalance > decoded.amountOut
                             THEN pool0.tokenBalance - decoded.amountOut ELSE 0,
            !.updatedAt = ts]

SwapNFTInPairCountSet(r, pool0, decoded, ts) ==
  [r EXCEPT !.nftCount = pool0.nftCount + decoded.numNfts,
            !.tokenBalance = IF pool0.tokenBalance > decoded.amountOut
                             THEN pool0.tokenBalance - decoded.amountOut ELSE 0,
            !.isActive = TRUE, !.updatedAt = ts]

SwapNFTInPairCount ==
  \E ev \in DeliverableOf(PayloadsOf.SwapNFTInPairCount) :
  /\ Dispatched(ev)
  /\ selector(ev) = EVENT_SELECTORS.SwapNFTInPairCount /\ isFromPair(ev)
  /\ LET decoded == decodeSwapNFTInPairCount(ev.keys, ev.data)
         pool == selectPool(eventAddress(ev))
         set == [r \in PoolRows |-> SwapNFTInPairCountSet(r, pool[1], decoded, blockTimestamp(ev))]
     IN  /\ swaps' = onConflictDoNothing(swaps,
               swapRow(eventAddress(ev), "SELL", decoded.amountOut, decoded.numNfts,
                       NullJson, ev))
         /\ pools' = IF Len(pool) > 0 THEN updatePools(eventAddress(ev), set) ELSE pools
  /\ UNCHANGED <<poolNfts, poolUpdates, protocolSettings, knownPairAddresses>>
  /\ Handled("SwapNFTInPairCount", ev, ev)

NFTWithdrawalCountSet(r, pool0, decoded, ts) ==
  LET newNftCount == Max(0, pool0.nftCount - decoded.numNfts)
  IN  [r EXCEPT !.nftCount = newNftCount,
                !.isActive = newNftCount > 0 \/ pool0.tokenBalance > 0,
                !.updatedAt = ts]

NFTWithdrawalCount ==
  \E ev \in DeliverableOf(PayloadsOf.NFTWithdrawalCount) :
  /\ Dispatched(ev)
  /\ selector(ev) = EVENT_SELECTORS.NFTWithdrawalCount /\ isFromPair(ev)
  /\ LET decoded == decodeNFTWithdrawalCount(ev.keys, ev.data)
         pool == selectPool(eventAddress(ev))
         set == [r \in PoolRows |-> NFTWithdrawalCountSet(r, pool[1], decoded, blockTimestamp(ev))]
     IN  pools' = IF Len(pool) > 0 THEN updatePools(eventAddress(ev), set) ELSE pools
  /\ UNCHANGED <<swaps, poolNfts, poolUpdates, protocolSettings, knownPairAddresses>>
  /\ Handled("NFTWithdrawalCount", ev, ev)

\* ------------------------------------------------ transform: ignored events
\* `if (keys.length === 0) continue;`
SkipNoKeys ==
  \E ev \in Deliverable :
  /\ Len(ev.keys) = 0
  /\ UNCHANGED <<pools, swaps, poolNfts, poolUpdates, protocolSettings, knownPairAddresses>>
  /\ Handled("SkipNoKeys", ev, Stripped(ev))

\* `if (!isFromFactory && !isFromPair) continue;`
SkipUnknownSource ==
  \E ev \in Deliverable :
  /\ Len(ev.keys) # 0
  /\ ~isFromFactory(ev) /\ ~isFromPair(ev)
  /\ UNCHANGED <<pools, swaps, poolNfts, poolUpdates, protocolSettings, knownPairAddresses>>
  /\ Handled("SkipUnknownSource", ev, Stripped(ev))

FactorySelectors ==
  LET S == EVENT_SELECTORS IN
  {S.NewERC721Pair, S.NewERC1155Pair, S.ERC20Deposit, S.NFTDeposit, S.ERC1155Deposit,
   S.ProtocolFeeRecipientUpdate, S.ProtocolFeeMultiplierUpdate,
   S.BondingCurveStatusUpdate, S.RouterStatusUpdate}

PairSelectors ==
  LET S == EVENT_SELECTORS IN
  {S.SpotPriceUpdate, S.DeltaUpdate, S.FeeUpdate, S.AssetRecipientChange,
   S.TokenDeposit, S.TokenWithdrawal, S.OwnershipTransferred,
   S.SwapNFTOutPairIds, S.SwapNFTInPairIds, S.NFTWithdrawalIds,
   S.SwapNFTOutPairCount, S.SwapNFTInPairCount, S.NFTWithdrawalCount}

\* No condition of the if / else-if chain holds: the loop body does nothing.
NoBranch ==
  \E ev \in Deliverable :
  /\ Dispatched(ev)
  /\ ~(selector(ev) \in FactorySelectors /\ isFromFactory(ev))
  /\ ~(selector(ev) \in PairSelectors /\ isFromPair(ev))
  /\ UNCHANGED <<pools, swaps, poolNfts, poolUpdates, protocolSettings, knownPairAddresses>>
  /\ Handled("NoBranch", ev, Stripped(ev))

\* ------------------------------------------- transform: the catch block
\* The persistence layer rejects the first statement of the branch the event
\* selects: the catch block logs and the loop goes on.  No statement of the
\* event has been accepted, so no table changes; what the branch did in memory
\* before its first statement (knownPairAddresses.add in the two creation
\* branches) stays.
\* The catch block that throws again: transform ends, the events after this one
\* in the block are never handed to the loop.
catchErrorRethrown(ev, recorded) ==
  /\ last' = [kind |-> "PersistenceError", ev |-> recorded, whole |-> recorded = ev,
              attempt |-> IF IsRedelivery(ev) THEN last.attempt + 1 ELSE 1,
              pre |-> Db]
  /\ delivered' = ((delivered \div EventsPerBlock) + 1) * EventsPerBlock

\* catch (error) { logger.error(...) }  "Don't re-throw": the loop goes on with
\* the next event.
catchError(ev, recorded) == Handled("PersistenceError", ev, recorded)

PersistenceError ==
  \E ev \in Deliverable :
  /\ Dispatched(ev)
  /\ \/ selector(ev) \in FactorySelectors /\ isFromFactory(ev)
     \/ selector(ev) \in PairSelectors /\ isFromPair(ev)
  /\ LET S == EVENT_SELECTORS
         creates == isFromFactory(ev) /\ selector(ev) \in {S.NewERC721Pair, S.NewERC1155Pair}
         poolAddress == IF selector(ev) = S.NewERC721Pair
                        THEN decodeNewERC721Pair(ev.keys, ev.data).poolAddress
                        ELSE decodeNewERC1155Pair(ev.keys, ev.data).poolAddress
     IN  /\ knownPairAddresses' =
              IF creates THEN knownPairAddressesAdd(poolAddress)
              ELSE knownPairAddresses
         /\ catchError(ev, IF creates THEN ev ELSE Stripped(ev))
  /\ UNCHANGED <<pools, swaps, poolNfts, poolUpdates, protocolSettings>>

\* The persistence layer rejects the last statement of the id-list buy branch,
\* db.update(pools): the Swap insert and the PoolNft delete before it were
\* accepted, nothing in the branch or in the catch block undoes them.
SwapNFTOutPairIdsUpdateRejected ==
  \E ev \in DeliverableOf(PayloadsOf.SwapNFTOutPairIds) :
  /\ Dispatched(ev)
  /\ selector(ev) = EVENT_SELECTORS.SwapNFTOutPairIds /\ isFromPair(ev)
  /\ LET decoded == decodeSwapNFTOutPairIds(ev.keys, ev.data)
         pool == selectPool(eventAddress(ev))
     IN  /\ Len(pool) > 0
         /\ swaps' = onConflictDoNothing(swaps,
               swapRow(eventAddress(ev), "BUY", decoded.amountIn, Len(decoded.ids),
                       JSONstringify(decoded.ids), ev))
         /\ poolNfts' = IF Len(decoded.ids) > 0
                        THEN deletePoolNfts(poolNfts, eventAddress(ev), decoded.ids)
                        ELSE poolNfts
  /\ UNCHANGED <<pools, poolUpdates, protocolSettings, knownPairAddresses>>
  /\ catchError(ev, ev)

\* ------------------------------------------------------- the specification
EmptyDb == [pools |-> <<>>, swaps |-> <<>>, poolNfts |-> <<>>, poolUpdates |-> <<>>,
            protocolSettings |-> <<>>, knownPairAddresses |-> {}]

\* What an earlier run leaves behind after SeedEvent: the rows the NewERC721Pair
\* branch inserts, and the address run:before loads from the pools table at
\* start-up.
SeededDb ==
  LET decoded == decodeNewERC721Pair(SeedEvent.keys, SeedEvent.data)
      row == newPoolRow(decoded.poolAddress, "ERC721", Len(decoded.initialIds),
                        Len(decoded.initialIds) > 0, SeedEvent)
  IN  [pools |-> <<row>>, swaps |-> <<>>,
       poolNfts |-> nftRows(decoded.poolAddress, decoded.initialIds, SeedEvent.blockNumber),
       poolUpdates |-> <<>>, protocolSettings |-> <<>>,
       knownPairAddresses |-> {toLowerCase(row.address)}]

\* The process starts on a fresh database or on the database of an earlier
\* run; `new Set<string>()` then run:before, which loads pools.address.
Init ==
  \E db \in {EmptyDb, SeededDb} :
    /\ pools = db.pools
    /\ swaps = db.swaps
    /\ poolNfts = db.poolNfts
    /\ poolUpdates = db.poolUpdates
    /\ protocolSettings = db.protocolSettings
    /\ knownPairAddresses = {toLowerCase(db.pools[i].address) : i \in DOMAIN db.pools}
    /\ delivered = 0
    /\ last = [kind |-> "init", ev |-> NoEvent, whole |-> FALSE, attempt |-> 0, pre |-> db]

\* One iteration of `for (const event of events)` in transform.
Next ==
  \/ SkipNoKeys
  \/ SkipUnknownSource
  \/ NewERC721Pair
  \/ NewERC1155Pair
  \/ ERC20Deposit
  \/ NFTDeposit
  \/ ERC1155Deposit
  \/ ProtocolFeeRecipientUpdate
  \/ ProtocolFeeMultiplierUpdate
  \/ BondingCurveStatusUpdate
  \/ RouterStatusUpdate
  \/ SpotPriceUpdate
  \/ DeltaUpdate
  \/ FeeUpdate
  \/ AssetRecipientChange
  \/ TokenDeposit
  \/ TokenWithdrawal
  \/ OwnershipTransferred
  \/ SwapNFTOutPairIds
  \/ SwapNFTInPairIds
  \/ NFTWithdrawalIds
  \/ SwapNFTOutPairCount
  \/ SwapNFTInPairCount
  \/ NFTWithdrawalCount
  \/ NoBranch
  \/ PersistenceError
  \/ SwapNFTOutPairIdsUpdateRejected

Spec == Init /\ [][Next]_vars

\* ------------------------------------------- a process that is not restarted
\* hooks run:before: the tracker a starting process derives from the pools table.
runBefore(poolRows) == {toLowerCase(poolRows[i].address) : i \in DOMAIN poolRows}

\* What the process holds after block 0 when the insert of SeedEvent's branch
\* was rejected: knownPairAddresses.add ran before the insert, no row was written.
SeedFailedDb ==
  [EmptyDb EXCEPT !.knownPairAddresses =
     {toLowerCase(decodeNewERC721Pair(SeedEvent.keys, SeedEvent.data).poolAddress)}]

\* The same process goes on to block 1 after it handled SeedEvent in block 0,
\* whichever way the persistence layer answered: it keeps the tracker it built
\* in memory, run:before does not run again.
ContinueInit ==
  \E db \in {SeededDb, SeedFailedDb} :
    /\ pools = db.pools
    /\ swaps = db.swaps
    /\ poolNfts = db.poolNfts
    /\ poolUpdates = db.poolUpdates
    /\ protocolSettings = db.protocolSettings
    /\ knownPairAddresses = db.knownPairAddresses
    /\ delivered = 0
    /\ last = [kind |-> "init", ev |-> NoEvent, whole |-> FALSE, attempt |-> 0, pre |-> db]

ContinueSpec == ContinueInit /\ [][Next]_vars

\* --------------------------------------------- the factory guard on its own
\* The factory address as an operator may configure it (FACTORY_ADDRESS): the
\* number, the count of hex digits written, the case of the letters, and
\* whether the text starts with "0x".
ConfiguredWidths == {1, HexWidth - 1, HexWidth, HexWidth + 1}

ConfiguredAddresses ==
  [v : {FactoryNum} \cup PoolNums, w : ConfiguredWidths, c : {"lower", "upper"},
   prefixed : BOOLEAN]

\* event.address as the stream may spell it, or absent.
AddressInputs ==
  {undefined} \cup {Hex(v, w, c) : v \in {FactoryNum} \cup PoolNums,
                                   w \in {1, HexWidth}, c \in {"lower", "upper"}}

\* factoryAddress.toLowerCase(), with "0x" put in front when it is missing:
\* the digits are kept as written.
normalizeFactoryAddress(configured) == Hex(configured.v, configured.w, "lower")

\* eventAddress === normalizedFactoryAddress
isFromFactoryConfigured(configured, address) ==
  toLowerCase(feltToHex(address)) = normalizeFactoryAddress(configured)

ConfigInit ==
  /\ pools = <<>> /\ swaps = <<>> /\ poolNfts = <<>>
  /\ poolUpdates = <<>> /\ protocolSettings = <<>>
  /\ knownPairAddresses = {}
  /\ delivered = 0
  /\ last = [kind |-> "init"]

ApplyIsFromFactory ==
  /\ last.kind = "init"
  /\ \E configured \in ConfiguredAddresses, address \in AddressInputs :
        /\ last' = [kind |-> "isFromFactory", configured |-> configured,
                    address |-> address,
                    result |-> isFromFactoryConfigured(configured, address)]
        /\ UNCHANGED <<tables, knownPairAddresses, delivered>>

ConfigNext == ApplyIsFromFactory

ConfigSpec == ConfigInit /\ [][ConfigNext]_vars

\* ------------------------------------------------- the decoders on their own
\* Calls of decodeU256 and decodeSpanU256 on arbitrary arguments, as any
\* decoder of the module may make them: `last` holds the call and its result,
\* the database is not involved. The decoders keep no state, so a behaviour
\* is one call.
MaxSpanCount == 2

\* A half handed to decodeU256: absent, or a felt; felts are not confined to
\* 128 bits.
HalfInputs == {undefined} \cup {Felt(v) : v \in 0..TwoPow128}

\* Data arrays handed to decodeSpanU256: every array short enough for a span of
\* MaxSpanCount ids, over felts that are also usable as a declared count.
DataInputs ==
  UNION {[1..n -> {Felt(v) : v \in 0..MaxSpanCount}] : n \in 0..(1 + 2 * MaxSpanCount)}

StartIndexInputs == 0..MaxSpanCount

DecodeInit ==
  /\ pools = <<>> /\ swaps = <<>> /\ poolNfts = <<>>
  /\ poolUpdates = <<>> /\ protocolSettings = <<>>
  /\ knownPairAddresses = {}
  /\ delivered = 0
  /\ last = [kind |-> "init"]

ApplyDecodeU256 ==
  /\ last.kind = "init"
  /\ \E low \in HalfInputs, high \in HalfInputs :
        /\ last' = [kind |-> "decodeU256", low |-> low, high |-> high,
                    result |-> decodeU256(low, high)]
        /\ UNCHANGED <<tables, knownPairAddresses, delivered>>

\* decodeU256 on the wire form of x: x mod 2^128, x div 2^128.
ApplyDecodeU256ToHalves ==
  /\ last.kind = "init"
  /\ \E x \in 0..(TwoPow128 * TwoPow128 - 1) :
        /\ last' = [kind |-> "decodeU256 of halves", x |-> x,
                    result |-> decodeU256(U256(x)[1], U256(x)[2])]
        /\ UNCHANGED <<tables, knownPairAddresses, delivered>>

ApplyDecodeSpanU256 ==
  /\ last.kind = "init"
  /\ \E data \in DataInputs, startIndex \in StartIndexInputs :
        /\ last' = [kind |-> "decodeSpanU256", data |-> data, startIndex |-> startIndex,
                    result |-> decodeSpanU256(data, startIndex)]
        /\ UNCHANGED <<tables, knownPairAddresses, delivered>>

DecodeNext ==
  \/ ApplyDecodeU256
  \/ ApplyDecodeU256ToHalves
  \/ ApplyDecodeSpanU256

DecodeSpec == DecodeInit /\ [][DecodeNext]_vars

\* =================================================================== claims
\* Reading the last loop iteration out of `last`.
LastPair == eventAddress(last.ev)

RowsAt(ps, a) == SelectSeq(ps, LAMBDA r : r.address = a)

NftRowsAt(t, a) == {i \in DOMAIN t : t[i].poolAddress = a}

NftIdsAt(t, a) == {t[i].tokenId : i \in NftRowsAt(t, a)}

EventRows(table, ev) == SelectSeq(table, LAMBDA r : SameEventKey(r, ev))

NoDuplicates(seq) == \A i, j \in DOMAIN seq : seq[i] = seq[j] => i = j

SwapKinds == {"SwapNFTOutPairIds", "SwapNFTInPairIds",
              "SwapNFTOutPairCount", "SwapNFTInPairCount"}

ParameterKinds == {"SpotPriceUpdate", "DeltaUpdate", "FeeUpdate", "AssetRecipientChange"}

SettingKinds == {"ProtocolFeeRecipientUpdate", "ProtocolFeeMultiplierUpdate",
                 "BondingCurveStatusUpdate", "RouterStatusUpdate"}

BalanceKinds == SwapKinds \cup {"TokenDeposit", "TokenWithdrawal", "NFTWithdrawalIds",
                                "NFTWithdrawalCount", "ERC20Deposit", "NFTDeposit",
                                "ERC1155Deposit"}

\* C1: handing the same buy, sell, deposit or withdrawal event to transform a
\* second time (same block number, transaction hash and event index) leaves
\* tokenBalance and nftCount of every Pool row as the first application left them.
C1_ReapplyKeepsBalances ==
  (last.attempt > 1 /\ last.kind \in BalanceKinds) =>
    /\ Len(pools) = Len(last.pre.pools)
    /\ \A i \in DOMAIN pools :
         /\ pools[i].tokenBalance = last.pre.pools[i].tokenBalance
         /\ pools[i].nftCount = last.pre.pools[i].nftCount

\* C2: swaps, poolUpdates and protocolSettings each hold at most one row per
\* (blockNumber, transactionHash, eventIndex), and a redelivered event that
\* writes one of them completes in its branch leaving the three tables as they were.
UniqueEventKey(table) ==
  \A i, j \in DOMAIN table : SameEventKey(table[i], table[j]) => i = j

C2_OneRowPerEventKey ==
  /\ UniqueEventKey(swaps)
  /\ UniqueEventKey(poolUpdates)
  /\ UniqueEventKey(protocolSettings)
  /\ (last.attempt > 1 /\ last.kind \in SwapKinds \cup ParameterKinds \cup SettingKinds
                                         \cup {"OwnershipTransferred"})
       => /\ swaps = last.pre.swaps
          /\ poolUpdates = last.pre.poolUpdates
          /\ protocolSettings = last.pre.protocolSettings

C2_Witness ==
  /\ last.attempt = 2
  /\ \/ last.kind \in SwapKinds /\ Len(EventRows(swaps, last.ev)) = 1
     \/ last.kind \in ParameterKinds /\ Len(EventRows(poolUpdates, last.ev)) = 1
     \/ last.kind \in SettingKinds /\ Len(EventRows(protocolSettings, last.ev)) = 1

\* C3: every Pool row has isActive = TRUE exactly when its nftCount is above
\* zero or its tokenBalance is above zero.
C3_ActiveIffHoldsAssets ==
  \A i \in DOMAIN pools :
    pools[i].isActive <=> (pools[i].nftCount > 0 \/ pools[i].tokenBalance > 0)

\* C4: tokenBalance and nftCount of every Pool row are never negative.
C4_BalancesNonNegative ==
  \A i \in DOMAIN pools : pools[i].tokenBalance >= 0 /\ pools[i].nftCount >= 0

\* A withdrawal of more than the balance, or a buy of more ids than the count,
\* has just been applied to a row holding something.
C4_Witness ==
  \E i \in DOMAIN last.pre.pools :
    /\ last.pre.pools[i].address = LastPair
    /\ \/ /\ last.kind = "TokenWithdrawal"
          /\ last.pre.pools[i].tokenBalance > 0
          /\ decodeTokenWithdrawal(last.ev.keys, last.ev.data).amount
               > last.pre.pools[i].tokenBalance
          /\ pools[i].tokenBalance = 0
       \/ /\ last.kind = "SwapNFTOutPairIds"
          /\ last.pre.pools[i].nftCount > 0
          /\ Len(decodeSwapNFTOutPairIds(last.ev.keys, last.ev.data).ids)
               > last.pre.pools[i].nftCount
          /\ pools[i].nftCount = 0

\* C5: a TokenWithdrawal event from a known pair that has a Pool row sets the
\* row's tokenBalance to max(0, tokenBalance - amount).
C5_TokenWithdrawalSaturates ==
  last.kind = "TokenWithdrawal" =>
    \A i \in DOMAIN last.pre.pools :
      last.pre.pools[i].address = LastPair =>
        pools[i].tokenBalance =
          Max(0, last.pre.pools[i].tokenBalance
                   - decodeTokenWithdrawal(last.ev.keys, last.ev.data).amount)

\* A withdrawal of less than the balance has just been applied.
C5_Witness ==
  /\ last.kind = "TokenWithdrawal"
  /\ \E i \in DOMAIN last.pre.pools :
       /\ last.pre.pools[i].address = LastPair
       /\ last.pre.pools[i].tokenBalance
            > decodeTokenWithdrawal(last.ev.keys, last.ev.data).amount
       /\ pools[i].tokenBalance > 0

\* C6: a creation event from the factory for an address without a Pool row
\* creates exactly one Pool row, its nftCount the number of initial ids (ERC721)
\* or the initial balance (ERC1155), isActive exactly when that count is not
\* zero, and for ERC721 exactly one PoolNft row per distinct initial id.
C6_CreationOfNewPool ==
  LET d721 == decodeNewERC721Pair(last.ev.keys, last.ev.data)
      d1155 == decodeNewERC1155Pair(last.ev.keys, last.ev.data)
      a == d721.poolAddress
      count == IF last.kind = "NewERC721Pair" THEN Len(d721.initialIds)
               ELSE d1155.initialBalance
  IN  (last.kind \in {"NewERC721Pair", "NewERC1155Pair"}
         /\ RowsAt(last.pre.pools, a) = <<>>) =>
        /\ Len(pools) = Len(last.pre.pools) + 1
        /\ Len(RowsAt(pools, a)) = 1
        /\ RowsAt(pools, a)[1].nftCount = count
        /\ RowsAt(pools, a)[1].isActive = (count # 0)
        /\ last.kind = "NewERC721Pair" =>
             \A id \in Range(d721.initialIds) :
               Cardinality({i \in NftRowsAt(poolNfts, a) : poolNfts[i].tokenId = id}) = 1

\* An ERC721 pair has just been created from a list naming one id twice.
C6_Witness ==
  /\ last.kind = "NewERC721Pair"
  /\ RowsAt(last.pre.pools, decodeNewERC721Pair(last.ev.keys, last.ev.data).poolAddress) = <<>>
  /\ decodeNewERC721Pair(last.ev.keys, last.ev.data).initialIds = <<1, 1>>
  /\ Len(pools) = Len(last.pre.pools) + 1

\* C7: for a known ERC721 pair with a Pool row holding the id set S, a buy in
\* id-list shape delivered for the first time, for ids R all in S with amountIn
\* a, leaves the pair's PoolNft rows exactly S \ R, reduces nftCount by |R|,
\* raises tokenBalance by a, and appends exactly one Swap row with direction
\* BUY, nftCount |R| and the ids of R in event order.
C7_FirstBuyOfHeldIds ==
  LET decoded == decodeSwapNFTOutPairIds(last.ev.keys, last.ev.data)
      S == NftIdsAt(last.pre.poolNfts, LastPair)
      R == Range(decoded.ids)
  IN  (/\ last.kind = "SwapNFTOutPairIds" /\ last.attempt = 1
       /\ EventRows(last.pre.swaps, last.ev) = <<>>
       /\ NoDuplicates(decoded.ids) /\ R \subseteq S
       /\ \E i \in DOMAIN last.pre.pools :
            last.pre.pools[i].address = LastPair /\ last.pre.pools[i].nftType = "ERC721") =>
        /\ NftIdsAt(poolNfts, LastPair) = S \ R
        /\ \A i \in DOMAIN last.pre.pools :
             last.pre.pools[i].address = LastPair =>
               /\ pools[i].nftCount = last.pre.pools[i].nftCount - Cardinality(R)
               /\ pools[i].tokenBalance = last.pre.pools[i].tokenBalance + decoded.amountIn
        /\ swaps = Append(last.pre.swaps,
                     swapRow(LastPair, "BUY", decoded.amountIn, Cardinality(R),
                             JSONstringify(decoded.ids), last.ev))

\* C8: a buy or an NFT withdrawal in id-list shape lowers nftCount by the
\* number of PoolNft rows it deleted (never below zero), not by the number of
\* ids it lists.
C8_DecrementByRowsDeleted ==
  last.kind \in {"SwapNFTOutPairIds", "NFTWithdrawalIds"} =>
    \A i \in DOMAIN last.pre.pools :
      last.pre.pools[i].address = LastPair =>
        pools[i].nftCount =
          Max(0, last.pre.pools[i].nftCount
                   - (Cardinality(NftRowsAt(last.pre.poolNfts, LastPair))
                        - Cardinality(NftRowsAt(poolNfts, LastPair))))

\* C9: a sell in id-list shape raises nftCount by the number of PoolNft rows it
\* inserted, not by the number of ids it lists.
C9_IncrementByRowsInserted ==
  last.kind = "SwapNFTInPairIds" =>
    \A i \in DOMAIN last.pre.pools :
      last.pre.pools[i].address = LastPair =>
        pools[i].nftCount =
          last.pre.pools[i].nftCount
            + (Cardinality(NftRowsAt(poolNfts, LastPair))
                 - Cardinality(NftRowsAt(last.pre.poolNfts, LastPair)))

\* C10: a spot-price, delta, fee or asset-recipient update from a known pair
\* address that has no Pool row creates no Pool row and leaves exactly one
\* PoolUpdate row for the event, appended on first delivery, its old value null
\* and its new value the event's value; the result is a function of the event.
C10_NewValue ==
  IF last.kind = "SpotPriceUpdate"
    THEN toString(decodeSpotPriceUpdate(last.ev.keys, last.ev.data).newSpotPrice)
  ELSE IF last.kind = "DeltaUpdate"
    THEN toString(decodeDeltaUpdate(last.ev.keys, last.ev.data).newDelta)
  ELSE IF last.kind = "FeeUpdate"
    THEN toString(decodeFeeUpdate(last.ev.keys, last.ev.data).newFee)
  ELSE decodeAssetRecipientChange(last.ev.keys, last.ev.data).newRecipient

C10_UpdateType ==
  IF last.kind = "SpotPriceUpdate" THEN "SPOT_PRICE"
  ELSE IF last.kind = "DeltaUpdate" THEN "DELTA"
  ELSE IF last.kind = "FeeUpdate" THEN "FEE" ELSE "ASSET_RECIPIENT"

C10_UpdateWithoutPoolRow ==
  (last.kind \in ParameterKinds /\ RowsAt(last.pre.pools, LastPair) = <<>>) =>
    /\ pools = last.pre.pools
    /\ EventRows(poolUpdates, last.ev)
         = <<updateRow(LastPair, C10_UpdateType, null, C10_NewValue, last.ev)>>
    /\ last.attempt = 1 =>
         poolUpdates = Append(last.pre.poolUpdates,
                         updateRow(LastPair, C10_UpdateType, null, C10_NewValue, last.ev))

\* A parameter update from a pair the tracker knows but the pools table does
\* not hold has just been applied for the first time.
C10_Witness ==
  /\ last.kind \in ParameterKinds /\ last.attempt = 1
  /\ LastPair \in last.pre.knownPairAddresses
  /\ RowsAt(last.pre.pools, LastPair) = <<>>
  /\ Len(poolUpdates) = Len(last.pre.poolUpdates) + 1

\* C11: a spot-price, delta, fee or asset-recipient update delivered for the
\* first time from a known pair with a Pool row appends one PoolUpdate row whose
\* old value is the row's field before the event and whose new value is the
\* event's value, and leaves the row's field equal to the event's value.
C11_FieldText(row) ==
  IF last.kind = "SpotPriceUpdate" THEN toString(row.spotPrice)
  ELSE IF last.kind = "DeltaUpdate" THEN toString(row.delta)
  ELSE IF last.kind = "FeeUpdate" THEN toString(row.fee)
  ELSE row.assetRecipient

C11_ParameterUpdateOnPoolRow ==
  (last.kind \in ParameterKinds /\ last.attempt = 1) =>
    \A i \in DOMAIN last.pre.pools :
      last.pre.pools[i].address = LastPair =>
        /\ poolUpdates = Append(last.pre.poolUpdates,
                           updateRow(LastPair, C10_UpdateType,
                                     C11_FieldText(last.pre.pools[i]), C10_NewValue, last.ev))
        /\ C11_FieldText(pools[i]) = C10_NewValue

\* A spot price already set has just been replaced by another.
C11_Witness ==
  /\ last.kind = "SpotPriceUpdate" /\ last.attempt = 1
  /\ \E i \in DOMAIN last.pre.pools :
       /\ last.pre.pools[i].address = LastPair
       /\ last.pre.pools[i].spotPrice > 0
       /\ pools[i].spotPrice # last.pre.pools[i].spotPrice
  /\ Len(poolUpdates) = Len(last.pre.poolUpdates) + 1

\* C12 (as the specification states it): an owner transfer from a known pair
\* with a Pool row appends a PoolUpdate row whose old value is the owner stored
\* on the row before the event, and leaves the row's owner the event's new owner.
C12_OldValueIsStoredOwner ==
  (last.kind = "OwnershipTransferred" /\ last.attempt = 1) =>
    \A i \in DOMAIN last.pre.pools :
      last.pre.pools[i].address = LastPair =>
        /\ poolUpdates = Append(last.pre.poolUpdates,
             updateRow(LastPair, "OWNER", last.pre.pools[i].owner,
                       decodeOwnershipTransferred(last.ev.keys, last.ev.data).newOwner,
                       last.ev))
        /\ pools[i].owner = decodeOwnershipTransferred(last.ev.keys, last.ev.data).newOwner

\* C12 (as the program behaves): the appended PoolUpdate row's old value is the
\* previous owner the event carries, whatever owner the row stored, and the
\* row's owner afterwards is the event's new owner.
C12_OldValueIsEventPreviousOwner ==
  LET decoded == decodeOwnershipTransferred(last.ev.keys, last.ev.data)
  IN  (last.kind = "OwnershipTransferred" /\ last.attempt = 1) =>
        /\ poolUpdates = Append(last.pre.poolUpdates,
             updateRow(LastPair, "OWNER", decoded.previousOwner, decoded.newOwner, last.ev))
        /\ \A i \in DOMAIN last.pre.pools :
             last.pre.pools[i].address = LastPair => pools[i].owner = decoded.newOwner

\* An owner transfer whose previous owner is not the owner the row stored has
\* just been applied.
C12_Witness ==
  /\ last.kind = "OwnershipTransferred" /\ last.attempt = 1
  /\ \E i \in DOMAIN last.pre.pools :
       /\ last.pre.pools[i].address = LastPair
       /\ last.pre.pools[i].owner
            # decodeOwnershipTransferred(last.ev.keys, last.ev.data).previousOwner
       /\ pools[i].owner # last.pre.pools[i].owner
  /\ Len(poolUpdates) = Len(last.pre.poolUpdates) + 1

\* C13: an event emitted by an address that is neither the factory nor in
\* knownPairAddresses leaves the five tables and knownPairAddresses unchanged,
\* whatever it carries.
C13_UnknownSourceIgnored ==
  (/\ last.kind # "init"
   /\ LastPair # normalizedFactoryAddress
   /\ LastPair \notin last.pre.knownPairAddresses) => Db = last.pre

\* An event with a pair selector from a contract the tracker does not know has
\* just been handed over while the database holds a pool.
C13_Witness ==
  /\ last.kind = "SkipUnknownSource"
  /\ selector(last.ev) \in PairSelectors
  /\ LastPair \notin knownPairAddresses
  /\ pools # <<>>

\* C14: an event whose selector no branch handles, or a pair-family event
\* emitted by the factory (not a known pair), or a factory-family event emitted
\* by a known pair (not the factory), leaves the five tables and
\* knownPairAddresses unchanged.
C14_UnhandledKindIgnored ==
  LET fromFactory == LastPair = normalizedFactoryAddress
      fromPair == LastPair \in last.pre.knownPairAddresses
      sel == selector(last.ev)
  IN  (/\ last.kind # "init" /\ last.ev.keys # <<>>
       /\ \/ sel \notin FactorySelectors \cup PairSelectors
          \/ sel \in PairSelectors /\ fromFactory /\ ~fromPair
          \/ sel \in FactorySelectors /\ fromPair /\ ~fromFactory) => Db = last.pre

\* A factory-family event emitted by a known pair has just been handed over.
C14_Witness ==
  /\ last.kind = "NoBranch"
  /\ selector(last.ev) \in FactorySelectors
  /\ LastPair \in knownPairAddresses /\ LastPair # normalizedFactoryAddress
  /\ pools # <<>>

\* C15: once a creation event from the factory has been processed the created
\* address is in knownPairAddresses and stays there, so every later event from
\* that address, in the same block or a later one, is classified as coming
\* from a known pair and reaches the branch of its selector.
C15_CreatedPairIsKnown ==
  /\ last.pre.knownPairAddresses \subseteq knownPairAddresses
  /\ last.kind \in {"NewERC721Pair", "NewERC1155Pair"} =>
       toLowerCase(decodeNewERC721Pair(last.ev.keys, last.ev.data).poolAddress)
         \in knownPairAddresses
  /\ last.kind = "SkipUnknownSource" => LastPair \notin last.pre.knownPairAddresses
  /\ (last.kind = "NoBranch" /\ LastPair \in last.pre.knownPairAddresses) =>
       selector(last.ev) \notin PairSelectors

\* A token deposit from a pair created earlier in the same block has just been
\* applied to the pair's row.
C15_Witness ==
  /\ last.kind = "TokenDeposit" /\ last.ev.eventIndex > 0
  /\ \E i \in DOMAIN pools :
       /\ pools[i].address = LastPair
       /\ pools[i].blockNumber = last.ev.blockNumber
       /\ pools[i].tokenBalance > last.pre.pools[i].tokenBalance

\* C16: after every processed event, those whose writes failed included,
\* knownPairAddresses is the set of the addresses in the pools table.
C16_TrackerEqualsPoolAddresses ==
  knownPairAddresses = {toLowerCase(pools[i].address) : i \in DOMAIN pools}

\* C17: a failure in one event's branch is caught: the event handed to the loop
\* next is the one right after it, in the same block when there is one, and it
\* is dispatched and applied like any other.
C17_FailureDoesNotAbortBlock ==
  (/\ last.kind = "PersistenceError" /\ last.attempt = 1
   /\ last.ev.blockNumber > SeedEvent.blockNumber) =>
    delivered = (last.ev.blockNumber - 1) * EventsPerBlock + last.ev.eventIndex + 1

\* A swap from a pair whose creation failed earlier in the same block (the
\* tracker knows the pair, the pools table is empty) has just been recorded.
C17_Witness ==
  /\ last.kind \in SwapKinds /\ last.attempt = 1
  /\ last.ev.eventIndex > 0
  /\ pools = <<>> /\ LastPair \in last.pre.knownPairAddresses
  /\ Len(swaps) = Len(last.pre.swaps) + 1

\* C18: a creation event for an address that already has a Pool row changes
\* only nftCount and updatedAt of that row: tokenBalance, spotPrice, delta, fee,
\* owner, assetRecipient, erc1155Id, nftType, poolType and every other column
\* keep their values, and no row is added.
C18_CreationOnExistingRow ==
  LET a == decodeNewERC721Pair(last.ev.keys, last.ev.data).poolAddress
  IN  last.kind \in {"NewERC721Pair", "NewERC1155Pair"} =>
        \A i \in DOMAIN last.pre.pools :
          last.pre.pools[i].address = a =>
            /\ Len(pools) = Len(last.pre.pools)
            /\ [pools[i] EXCEPT !.nftCount = 0, !.updatedAt = 0]
                 = [last.pre.pools[i] EXCEPT !.nftCount = 0, !.updatedAt = 0]

\* The creation event has just been replayed on a row whose balance and count
\* later events had changed.
C18_Witness ==
  /\ last.kind = "NewERC721Pair"
  /\ \E i \in DOMAIN last.pre.pools :
       /\ last.pre.pools[i].address
            = decodeNewERC721Pair(last.ev.keys, last.ev.data).poolAddress
       /\ last.pre.pools[i].tokenBalance > 0
       /\ pools[i].tokenBalance = last.pre.pools[i].tokenBalance
       /\ pools[i].nftCount # last.pre.pools[i].nftCount

\* C19: an NFT withdrawal, in either shape, from a known pair with a Pool row
\* adds no Swap row, leaves tokenBalance unchanged, and leaves isActive false
\* exactly when the resulting nftCount and the tokenBalance are both zero.
C19_NftWithdrawalEffect ==
  last.kind \in {"NFTWithdrawalIds", "NFTWithdrawalCount"} =>
    /\ swaps = last.pre.swaps
    /\ \A i \in DOMAIN last.pre.pools :
         last.pre.pools[i].address = LastPair =>
           /\ pools[i].tokenBalance = last.pre.pools[i].tokenBalance
           /\ ~pools[i].isActive <=> (pools[i].nftCount = 0 /\ pools[i].tokenBalance = 0)

\* A withdrawal of every NFT from a pair that still holds tokens has just been
\* applied.
C19_Witness ==
  /\ last.kind = "NFTWithdrawalIds"
  /\ \E i \in DOMAIN last.pre.pools :
       /\ last.pre.pools[i].address = LastPair
       /\ last.pre.pools[i].nftCount > 0
       /\ pools[i].nftCount = 0 /\ pools[i].tokenBalance > 0 /\ pools[i].isActive

\* C20: a protocol-setting event from the factory with a key no row carries
\* yet appends exactly one ProtocolSetting row and leaves pools, swaps, poolNfts,
\* poolUpdates and knownPairAddresses unchanged.
C20_SettingAppendsOneRow ==
  (/\ last.kind \in SettingKinds
   /\ \A i \in DOMAIN last.pre.protocolSettings :
        ~(/\ last.pre.protocolSettings[i].blockNumber = last.ev.blockNumber
          /\ last.pre.protocolSettings[i].transactionHash = last.ev.transactionHash
          /\ last.pre.protocolSettings[i].eventIndex = last.ev.eventIndex)) =>
    /\ Len(protocolSettings) = Len(last.pre.protocolSettings) + 1
    /\ SubSeq(protocolSettings, 1, Len(last.pre.protocolSettings)) = last.pre.protocolSettings
    /\ protocolSettings[Len(protocolSettings)].blockNumber = last.ev.blockNumber
    /\ protocolSettings[Len(protocolSettings)].eventIndex = last.ev.eventIndex
    /\ pools = last.pre.pools /\ swaps = last.pre.swaps
    /\ poolNfts = last.pre.poolNfts /\ poolUpdates = last.pre.poolUpdates
    /\ knownPairAddresses = last.pre.knownPairAddresses

\* A second setting of the same block has just been appended while the
\* database holds a pool.
C20_Witness ==
  /\ last.kind \in SettingKinds /\ last.attempt = 1
  /\ last.ev.eventIndex > 0
  /\ Len(last.pre.protocolSettings) = 1
  /\ last.pre.protocolSettings[1].blockNumber = last.ev.blockNumber
  /\ Len(protocolSettings) = 2
  /\ pools # <<>>

\* No row of the table carries the key (block number, transaction hash, event
\* index) of the event just handled: the event is applied for the first time.
FirstTimeIn(table) ==
  \A i \in DOMAIN table :
    ~(/\ table[i].blockNumber = last.ev.blockNumber
      /\ table[i].transactionHash = last.ev.transactionHash
      /\ table[i].eventIndex = last.ev.eventIndex)

\* C21: a first-time sell, in either shape, on a known pair with a Pool row
\* appends exactly one Swap row with direction SELL, sets tokenBalance to
\* max(0, old - amountOut) and sets isActive to true.
C21_FirstSellEffect ==
  (/\ last.kind \in {"SwapNFTInPairIds", "SwapNFTInPairCount"}
   /\ FirstTimeIn(last.pre.swaps)) =>
    LET amountOut == decodeU256(At(last.ev.data, 0), At(last.ev.data, 1))
    IN  /\ Len(swaps) = Len(last.pre.swaps) + 1
        /\ SubSeq(swaps, 1, Len(last.pre.swaps)) = last.pre.swaps
        /\ swaps[Len(swaps)].direction = "SELL"
        /\ swaps[Len(swaps)].poolAddress = LastPair
        /\ swaps[Len(swaps)].tokenAmount = amountOut
        /\ Len(pools) = Len(last.pre.pools)
        /\ \A i \in DOMAIN last.pre.pools :
             last.pre.pools[i].address = LastPair =>
               /\ pools[i].tokenBalance = Max(0, last.pre.pools[i].tokenBalance - amountOut)
               /\ pools[i].isActive

\* A count-shape sell has just turned an inactive pair that held some tokens
\* active again, paying out part of its balance.
C21_Witness ==
  /\ last.kind = "SwapNFTInPairCount" /\ FirstTimeIn(last.pre.swaps)
  /\ \E i \in DOMAIN last.pre.pools :
       /\ last.pre.pools[i].address = LastPair
       /\ ~last.pre.pools[i].isActive
       /\ last.pre.pools[i].tokenBalance > 0
       /\ pools[i].isActive
       /\ pools[i].tokenBalance < last.pre.pools[i].tokenBalance

\* C22: a first-time count-shape buy on a known pair with a Pool row
\* decrements nftCount by the reported count, floored at 0, adds amountIn to
\* tokenBalance, sets isActive to (resulting nftCount > 0), leaves the PoolNft
\* table unchanged and appends one Swap row with direction BUY and a null id list.
C22_FirstCountBuyEffect ==
  (/\ last.kind = "SwapNFTOutPairCount"
   /\ FirstTimeIn(last.pre.swaps)) =>
    LET amountIn == decodeU256(At(last.ev.data, 0), At(last.ev.data, 1))
        numNfts == decodeU256(At(last.ev.data, 2), At(last.ev.data, 3))
    IN  /\ poolNfts = last.pre.poolNfts
        /\ Len(swaps) = Len(last.pre.swaps) + 1
        /\ SubSeq(swaps, 1, Len(last.pre.swaps)) = last.pre.swaps
        /\ swaps[Len(swaps)].direction = "BUY"
        /\ swaps[Len(swaps)].nftIds = NullJson
        /\ swaps[Len(swaps)].nftCount = numNfts
        /\ Len(pools) = Len(last.pre.pools)
        /\ \A i \in DOMAIN last.pre.pools :
             last.pre.pools[i].address = LastPair =>
               /\ pools[i].nftCount = Max(0, last.pre.pools[i].nftCount - numNfts)
               /\ pools[i].nftCount >= 0
               /\ pools[i].tokenBalance = last.pre.pools[i].tokenBalance + amountIn
               /\ pools[i].isActive <=> pools[i].nftCount > 0

\* A count-shape buy has just reported more NFTs than the pair's row counted:
\* the count stops at zero.
C22_Witness ==
  /\ last.kind = "SwapNFTOutPairCount" /\ FirstTimeIn(last.pre.swaps)
  /\ \E i \in DOMAIN last.pre.pools :
       /\ last.pre.pools[i].address = LastPair
       /\ last.pre.pools[i].nftCount > 0
       /\ last.pre.pools[i].nftCount < decodeU256(At(last.ev.data, 2), At(last.ev.data, 3))
       /\ pools[i].nftCount = 0 /\ ~pools[i].isActive

DepositKinds == {"ERC20Deposit", "TokenDeposit", "NFTDeposit", "ERC1155Deposit"}

\* The pool address a deposit targets: the first key after the selector for a
\* deposit emitted by the factory, the emitter for a pair's own TokenDeposit.
DepositTarget ==
  IF last.kind = "TokenDeposit" THEN LastPair ELSE feltToHex(At(last.ev.keys, 1))

\* What the deposit adds to tokenBalance and to nftCount.
DepositedTokens ==
  IF last.kind \in {"ERC20Deposit", "TokenDeposit"}
  THEN decodeU256(At(last.ev.data, 0), At(last.ev.data, 1)) ELSE 0

DepositedNfts ==
  CASE last.kind = "NFTDeposit" -> hexToBigInt(At(last.ev.data, 0))
    [] last.kind = "ERC1155Deposit" -> decodeU256(At(last.ev.data, 0), At(last.ev.data, 1))
    [] OTHER -> 0

DepositAdds ==
  /\ Len(pools) = Len(last.pre.pools)
  /\ \A i \in DOMAIN last.pre.pools :
       last.pre.pools[i].address = DepositTarget =>
         /\ pools[i].tokenBalance = last.pre.pools[i].tokenBalance + DepositedTokens
         /\ pools[i].nftCount = last.pre.pools[i].nftCount + DepositedNfts

DepositActivates ==
  \A i \in DOMAIN last.pre.pools :
    last.pre.pools[i].address = DepositTarget => pools[i].isActive

DepositedIdsHeldOnce ==
  last.kind = "NFTDeposit" =>
    \A id \in Range(decodeNFTDeposit(last.ev.keys, last.ev.data).ids) :
      Cardinality({i \in NftRowsAt(poolNfts, DepositTarget) : poolNfts[i].tokenId = id}) = 1

\* C23 as stated: every first-time deposit (factory ERC20Deposit, pair
\* TokenDeposit, factory NFTDeposit, factory ERC1155Deposit) targeting an
\* existing Pool row adds the amount to tokenBalance or the deposited count to
\* nftCount, sets isActive to true and, for an NFT deposit, leaves exactly one
\* PoolNft row per deposited id.
C23_DepositEffect ==
  (/\ last.kind \in DepositKinds /\ last.attempt = 1
   /\ RowsAt(last.pre.pools, DepositTarget) # <<>>) =>
    /\ DepositAdds
    /\ DepositActivates
    /\ DepositedIdsHeldOnce

\* C23, amended: the same for every deposit but the NFT deposit listing no id,
\* which leaves the database as it was (isActive included).
C23_DepositEffectUnlessNoIds ==
  (/\ last.kind \in DepositKinds /\ last.attempt = 1
   /\ RowsAt(last.pre.pools, DepositTarget) # <<>>) =>
    IF last.kind = "NFTDeposit" /\ DepositedNfts = 0
    THEN Db = last.pre
    ELSE /\ DepositAdds
         /\ DepositActivates
         /\ DepositedIdsHeldOnce

\* An NFT deposit naming an id the pair already holds has just been applied to
\* an inactive Pool row.
C23_Witness ==
  /\ last.kind = "NFTDeposit" /\ last.attempt = 1
  /\ \E i \in DOMAIN last.pre.pools :
       /\ last.pre.pools[i].address = DepositTarget
       /\ ~last.pre.pools[i].isActive
       /\ pools[i].isActive
  /\ \E id \in Range(decodeNFTDeposit(last.ev.keys, last.ev.data).ids) :
       id \in NftIdsAt(last.pre.poolNfts, DepositTarget)

\* The pool address a deposit, withdrawal or swap targets.
BalanceTarget ==
  IF last.kind \in {"ERC20Deposit", "NFTDeposit", "ERC1155Deposit"}
  THEN feltToHex(At(last.ev.keys, 1)) ELSE LastPair

\* C24: a deposit, token withdrawal, buy, sell or NFT withdrawal targeting a
\* pool address with no Pool row never creates one: the Pool table is unchanged.
C24_NoRowIsNeverCreated ==
  (/\ last.kind \in BalanceKinds
   /\ \A i \in DOMAIN last.pre.pools : last.pre.pools[i].address # BalanceTarget) =>
    pools = last.pre.pools

\* An NFT deposit for an address with no Pool row has just left inventory rows
\* for that address, and still no Pool row.
C24_Witness ==
  /\ last.kind = "NFTDeposit"
  /\ \A i \in DOMAIN last.pre.pools : last.pre.pools[i].address # BalanceTarget
  /\ NftRowsAt(last.pre.poolNfts, BalanceTarget) = {}
  /\ NftRowsAt(poolNfts, BalanceTarget) # {}
  /\ pools = last.pre.pools

\* The index in data at which the span of the event just handled begins.
SpanStartOf(kind) ==
  IF kind \in {"SwapNFTOutPairIds", "SwapNFTInPairIds"} THEN 2 ELSE 0

SpanKinds == {"NewERC721Pair", "NFTDeposit", "SwapNFTOutPairIds", "SwapNFTInPairIds",
              "NFTWithdrawalIds"}

\* The span declares a count n with fewer than 2n elements after it.
Overruns(data, startIndex) ==
  2 * hexToBigInt(At(data, startIndex)) > Len(data) - (startIndex + 1)

\* C25: an event whose span declares a count n with fewer than 2n elements
\* after it is a decode error: none of its transition is applied (no Swap,
\* PoolNft or Pool change).
C25_OverrunSpanAppliesNothing ==
  (/\ last.kind \in SpanKinds
   /\ Overruns(last.ev.data, SpanStartOf(last.kind))) =>
    /\ swaps = last.pre.swaps
    /\ poolNfts = last.pre.poolNfts
    /\ pools = last.pre.pools

\* The number in a position of a data array, an absent position counting as 0.
ElementAt(data, k) == IF k + 1 \in DOMAIN data THEN data[k + 1].v ELSE 0

\* C26: for every declared count n >= 0 and every start index, decodeSpanU256
\* reports exactly 1 + 2n elements consumed and returns exactly n integers, the
\* i-th being the u256 of the i-th low/high pair after the count, whether or
\* not the array holds those 2n elements.
C26_SpanConsumesOnePlusTwoN ==
  last.kind = "decodeSpanU256" =>
    LET n == ElementAt(last.data, last.startIndex)
    IN  /\ last.result.consumed = 1 + 2 * n
        /\ Len(last.result.tokens) = n
        /\ \A i \in 1..n :
             last.result.tokens[i] =
               ElementAt(last.data, last.startIndex + 2 * i) * (2 ^ LimbBits)
                 + ElementAt(last.data, last.startIndex + 2 * i - 1)

\* A span declaring two ids has just been decoded from a later start index of
\* an array that holds only part of them.
C26_Witness ==
  /\ last.kind = "decodeSpanU256"
  /\ last.startIndex > 0
  /\ ElementAt(last.data, last.startIndex) = 2
  /\ Len(last.data) > last.startIndex + 1
  /\ Len(last.data) < last.startIndex + 5
  /\ Len(last.result.tokens) = 2
  /\ last.result.tokens[1] > 0

\* C27: for all (low, high), decodeU256(low, high) = high * 2^128 + low, an
\* absent half counting as 0; and for every x below 2^256, decoding
\* (x mod 2^128, x div 2^128) returns x.
C27_DecodeU256Composes ==
  /\ last.kind = "decodeU256" =>
       last.result = (IF last.high = undefined THEN 0 ELSE last.high.v) * (2 ^ LimbBits)
                       + (IF last.low = undefined THEN 0 ELSE last.low.v)
  /\ last.kind = "decodeU256 of halves" => last.result = last.x

\* The halves of a number with a non-zero high half, different from its low
\* half, have just been decoded.
C27_Witness ==
  /\ last.kind = "decodeU256 of halves"
  /\ last.x \div (2 ^ LimbBits) > 0
  /\ last.x \div (2 ^ LimbBits) # last.x % (2 ^ LimbBits)
  /\ last.result = last.x

\* C28: in every reachable state the PoolNft table holds at most one row per
\* (poolAddress, tokenId), also after an event listing an id twice or naming an
\* id already held.
C28_OneRowPerPoolAndToken ==
  \A i, j \in DOMAIN poolNfts :
    (/\ poolNfts[i].poolAddress = poolNfts[j].poolAddress
     /\ poolNfts[i].tokenId = poolNfts[j].tokenId) => i = j

\* A sell listing one id twice, an id the pair already held, has just been
\* applied.
C28_Witness ==
  /\ last.kind = "SwapNFTInPairIds"
  /\ LET ids == decodeSwapNFTInPairIds(last.ev.keys, last.ev.data).ids
     IN  /\ Len(ids) = 2 /\ ids[1] = ids[2]
         /\ ids[1] \in NftIdsAt(last.pre.poolNfts, LastPair)
         /\ ids[1] \in NftIdsAt(poolNfts, LastPair)

CreationSelectors == {EVENT_SELECTORS.NewERC721Pair, EVENT_SELECTORS.NewERC1155Pair}

\* The event just handled carries a creation selector in keys[0].
LastIsCreationSelector ==
  /\ last.kind # "init"
  /\ Len(last.ev.keys) > 0
  /\ last.ev.keys[1] \in CreationSelectors

\* C29: the tracker gains an address only when a creation event (of either
\* standard) emitted by the factory is processed; an event with a creation
\* selector from any other address, a known pair included, adds no address and
\* creates no Pool row.
C29_OnlyFactoryCreationAdds ==
  /\ knownPairAddresses # last.pre.knownPairAddresses =>
       /\ LastIsCreationSelector
       /\ LastPair = normalizedFactoryAddress
       /\ knownPairAddresses =
            last.pre.knownPairAddresses \cup {feltToHex(At(last.ev.keys, 1))}
  /\ (LastIsCreationSelector /\ LastPair # normalizedFactoryAddress) =>
       /\ knownPairAddresses = last.pre.knownPairAddresses
       /\ pools = last.pre.pools

\* A known pair has just emitted an event with a creation selector while
\* another pair address is still unknown: nothing changed.
C29_Witness ==
  /\ LastIsCreationSelector
  /\ LastPair \in last.pre.knownPairAddresses
  /\ \E p \in PoolNums : feltToHex(Felt(p)) \notin knownPairAddresses
  /\ Db = last.pre

\* C30: no transition deletes a Pool row, and none deletes or modifies an
\* existing Swap, PoolUpdate or ProtocolSetting row.
C30_RowsAreKept ==
  /\ Len(pools) >= Len(last.pre.pools)
  /\ \A i \in DOMAIN last.pre.pools : pools[i].address = last.pre.pools[i].address
  /\ Len(swaps) >= Len(last.pre.swaps)
  /\ SubSeq(swaps, 1, Len(last.pre.swaps)) = last.pre.swaps
  /\ Len(poolUpdates) >= Len(last.pre.poolUpdates)
  /\ SubSeq(poolUpdates, 1, Len(last.pre.poolUpdates)) = last.pre.poolUpdates
  /\ Len(protocolSettings) >= Len(last.pre.protocolSettings)
  /\ SubSeq(protocolSettings, 1, Len(last.pre.protocolSettings)) = last.pre.protocolSettings

\* A parameter update has just been delivered again to a pair whose Pool row
\* its first delivery changed: the PoolUpdate row of the first delivery stands.
C30_Witness ==
  /\ last.kind \in ParameterKinds /\ last.attempt = 2
  /\ RowsAt(pools, LastPair) # <<>>
  /\ Len(poolUpdates) = 1
  /\ poolUpdates = last.pre.poolUpdates
  /\ poolUpdates[1].oldValue # poolUpdates[1].newValue

\* C31: within a block, events are handled one at a time in delivered order,
\* and the reads of an event's transition observe every write of the events
\* before it: each step takes the next event of the stream (or the same event
\* again), starts from the database the step before left, and what it reads of
\* the Pool row (the balance a token deposit adds to, the old value a
\* spot-price update records) is what that database holds.
C31_StepInOrderOnCurrentState ==
  [][LET ev == last'.ev
         amount == decodeU256(At(ev.data, 0), At(ev.data, 1))
         target == IF last'.kind = "ERC20Deposit" THEN feltToHex(At(ev.keys, 1))
                   ELSE eventAddress(ev)
         sameKey(e) == /\ ev.blockNumber = e.blockNumber
                       /\ ev.transactionHash = e.transactionHash
                       /\ ev.eventIndex = e.eventIndex
         firstTime == \A i \in DOMAIN poolUpdates : ~sameKey(poolUpdates[i])
     IN  /\ last'.pre = Db
         /\ \/ /\ delivered' = delivered + 1
               /\ \/ ev.blockNumber = BlockOf(delivered) /\ ev.eventIndex = IndexOf(delivered)
                  \/ sameKey(SeedEvent)
            \/ /\ delivered' = delivered
               /\ sameKey(last.ev)
         /\ last'.kind \in {"TokenDeposit", "ERC20Deposit"} =>
              /\ Len(pools') = Len(pools)
              /\ \A i \in DOMAIN pools :
                   pools[i].address = target =>
                     pools'[i].tokenBalance = pools[i].tokenBalance + amount
         /\ (last'.kind = "SpotPriceUpdate" /\ firstTime) =>
              /\ Len(poolUpdates') = Len(poolUpdates) + 1
              /\ \A i \in DOMAIN pools :
                   pools[i].address = target =>
                     poolUpdates'[Len(poolUpdates')].oldValue = toString(pools[i].spotPrice)
    ]_vars

\* The second event of a block, a token deposit, has just been added to the
\* balance that the first event of the same block left in the Pool row.
C31_Witness ==
  /\ last.kind = "TokenDeposit"
  /\ last.ev.eventIndex = 1
  /\ \E i \in DOMAIN last.pre.pools :
       /\ last.pre.pools[i].address = LastPair
       /\ last.pre.pools[i].updatedAt = blockTimestamp(last.ev)
       /\ last.pre.pools[i].tokenBalance > 0
       /\ pools[i].tokenBalance > last.pre.pools[i].tokenBalance

\* C32: in every reachable state the Pool row of every ERC721 pool has an
\* nftCount equal to the number of PoolNft rows of the pool's address.
C32_CountEqualsInventoryRows ==
  \A i \in DOMAIN pools :
    pools[i].nftType = "ERC721" =>
      pools[i].nftCount = Cardinality(NftRowsAt(poolNfts, pools[i].address))

\* C33: in every reachable state every PoolNft row and every Swap row has a
\* poolAddress for which a Pool row exists.
C33_RowsReferToPoolRow ==
  /\ \A i \in DOMAIN poolNfts : RowsAt(pools, poolNfts[i].poolAddress) # <<>>
  /\ \A i \in DOMAIN swaps : RowsAt(pools, swaps[i].poolAddress) # <<>>

\* C34: when a persistence write fails partway through an event's transition,
\* none of the event's earlier writes remain in the tables: the event is
\* applied entirely or not at all.
C34_FailedEventLeavesNoWrite ==
  last.kind = "PersistenceError" =>
    /\ pools = last.pre.pools
    /\ swaps = last.pre.swaps
    /\ poolNfts = last.pre.poolNfts
    /\ poolUpdates = last.pre.poolUpdates
    /\ protocolSettings = last.pre.protocolSettings

\* C35: a run with a process restart between two blocks (the tracker derived
\* again from the Pool table) and a run without one, over the same events with
\* the same persistence outcomes, end with the same contents in all five
\* tables.  Here for a restart between block 0 and block 1 and the first event
\* of block 1: the restarted process skips an event from an address that is
\* neither the factory nor the address of a Pool row, so the process that went
\* on without a restart must leave the tables unchanged on such an event.
C35_RestartLeavesSameTables ==
  (/\ last.kind # "init" /\ last.attempt = 1
   /\ last.ev.blockNumber = 1 /\ last.ev.eventIndex = 0
   /\ LastPair # normalizedFactoryAddress
   /\ LastPair \notin runBefore(last.pre.pools)) =>
    /\ pools = last.pre.pools
    /\ swaps = last.pre.swaps
    /\ poolNfts = last.pre.poolNfts
    /\ poolUpdates = last.pre.poolUpdates
    /\ protocolSettings = last.pre.protocolSettings

\* C36: an event is classified as coming from the factory exactly when its
\* emitting address is numerically equal to the configured factory address,
\* whatever the letter case and the leading-zero padding of the configured text.
C36_FactoryGuardIsNumeric ==
  last.kind = "isFromFactory" =>
    (last.result <=> (last.address # undefined /\ last.address.v = last.configured.v))

\* The pool address the event just handled is about: the decoded pool address
\* of a factory creation or deposit event, the emitter of any other event.
EventPool ==
  IF last.kind \in {"NewERC721Pair", "NewERC1155Pair", "ERC20Deposit", "NFTDeposit",
                    "ERC1155Deposit"}
  THEN feltToHex(At(last.ev.keys, 1)) ELSE LastPair

\* C37: an event emitted by pool A, or a factory event whose decoded pool
\* address is A, never changes the Pool row of another address B and never
\* inserts or deletes a PoolNft row whose poolAddress is B.
C37_OtherPoolsUntouched ==
  last.kind # "init" =>
    \A B \in {pools[i].address : i \in DOMAIN pools}
               \cup {last.pre.pools[i].address : i \in DOMAIN last.pre.pools}
               \cup {poolNfts[i].poolAddress : i \in DOMAIN poolNfts}
               \cup {last.pre.poolNfts[i].poolAddress : i \in DOMAIN last.pre.poolNfts} :
      B # EventPool =>
        /\ RowsAt(pools, B) = RowsAt(last.pre.pools, B)
        /\ SelectSeq(poolNfts, LAMBDA r : r.poolAddress = B)
             = SelectSeq(last.pre.poolNfts, LAMBDA r : r.poolAddress = B)

\* A buy from one pair has just named an id of which another address holds a
\* PoolNft row too: the pair's row is gone, the other one is still there.
C37_Witness ==
  /\ last.kind = "SwapNFTOutPairIds"
  /\ \E id \in Range(decodeSwapNFTOutPairIds(last.ev.keys, last.ev.data).ids) :
       /\ id \in NftIdsAt(last.pre.poolNfts, LastPair)
       /\ id \notin NftIdsAt(poolNfts, LastPair)
       /\ \E i \in DOMAIN poolNfts :
            poolNfts[i].poolAddress # LastPair /\ poolNfts[i].tokenId = id

UpdateKinds == ParameterKinds \cup {"OwnershipTransferred"}

\* C38: applying a spot-price, delta, fee, asset-recipient or owner update
\* again (same block, transaction and event index) leaves the parameter fields
\* of every Pool row and the whole PoolUpdate table as the first application
\* left them; the old value of the existing audit row is not overwritten.
C38_ReappliedUpdateChangesNothing ==
  (/\ last.kind \in UpdateKinds
   /\ last.attempt > 1
   /\ ~FirstTimeIn(last.pre.poolUpdates)) =>
    /\ poolUpdates = last.pre.poolUpdates
    /\ Len(pools) = Len(last.pre.pools)
    /\ \A i \in DOMAIN pools :
         /\ pools[i].spotPrice = last.pre.pools[i].spotPrice
         /\ pools[i].delta = last.pre.pools[i].delta
         /\ pools[i].fee = last.pre.pools[i].fee
         /\ pools[i].assetRecipient = last.pre.pools[i].assetRecipient
         /\ pools[i].owner = last.pre.pools[i].owner

\* An ownership transfer has just been applied a second time to a pair with a
\* Pool row: its audit row still records the owner named by the event as old
\* value, not the owner the first application stored.
C38_Witness ==
  /\ last.kind = "OwnershipTransferred" /\ last.attempt = 2
  /\ \E i \in DOMAIN pools :
       /\ pools[i].address = LastPair
       /\ pools[i].owner = decodeOwnershipTransferred(last.ev.keys, last.ev.data).newOwner
  /\ Len(poolUpdates) = 1
  /\ poolUpdates[1].oldValue # poolUpdates[1].newValue
  /\ poolUpdates = last.pre.poolUpdates

C39_UpdateType ==
  IF last.kind = "OwnershipTransferred" THEN "OWNER" ELSE C10_UpdateType

\* The audit rows of the event's pool and kind written before this step.
C39_EarlierRows ==
  {j \in DOMAIN last.pre.poolUpdates :
     /\ last.pre.poolUpdates[j].poolAddress = LastPair
     /\ last.pre.poolUpdates[j].updateType = C39_UpdateType}

\* The most recent of them: no event of that kind on that pool came after it.
C39_IsLatest(j) ==
  j \in C39_EarlierRows /\ \A k \in C39_EarlierRows : k <= j

\* The pool's row was inserted in a block before the one of audit row j, and
\* rows of pools are never deleted: it has been there throughout.
C39_PoolRowSince(j) ==
  \E i \in DOMAIN last.pre.pools :
    /\ last.pre.pools[i].address = LastPair
    /\ last.pre.pools[i].blockNumber < last.pre.poolUpdates[j].blockNumber

C39_Applied ==
  /\ last.attempt = 1
  /\ FirstTimeIn(last.pre.poolUpdates)
  /\ Len(poolUpdates) = Len(last.pre.poolUpdates) + 1

\* C39 as stated: for a pool whose Pool row exists throughout, when an update
\* event of some kind (spot price, delta, fee, asset recipient or owner) is
\* applied after an earlier one of the same kind with a distinct key and none
\* of that kind in between, the old value of the later PoolUpdate row equals
\* the new value of the earlier PoolUpdate row.
C39_OldValueChains ==
  (last.kind \in UpdateKinds /\ C39_Applied) =>
    \A j \in DOMAIN last.pre.poolUpdates :
      (C39_IsLatest(j) /\ C39_PoolRowSince(j)) =>
        poolUpdates[Len(poolUpdates)].oldValue = last.pre.poolUpdates[j].newValue

\* C39 as the code has it: the chaining holds for spot price, delta, fee and
\* asset recipient, whose old value is read from the Pool row; the old value
\* of an owner row is the previous owner carried by the later event, whatever
\* the earlier owner row recorded.
C39_OldValueChainsForParameters ==
  /\ (last.kind \in ParameterKinds /\ C39_Applied) =>
       \A j \in DOMAIN last.pre.poolUpdates :
         (C39_IsLatest(j) /\ C39_PoolRowSince(j)) =>
           poolUpdates[Len(poolUpdates)].oldValue = last.pre.poolUpdates[j].newValue
  /\ (last.kind = "OwnershipTransferred" /\ C39_Applied) =>
       poolUpdates[Len(poolUpdates)].oldValue
         = decodeOwnershipTransferred(last.ev.keys, last.ev.data).previousOwner

\* A second delta update with another value has just been applied to a pair
\* whose Pool row precedes both: its old value is the first one's new value.
C39_Witness ==
  /\ last.kind = "DeltaUpdate" /\ C39_Applied
  /\ \E j \in DOMAIN last.pre.poolUpdates :
       /\ C39_IsLatest(j) /\ C39_PoolRowSince(j)
       /\ poolUpdates[Len(poolUpdates)].oldValue = last.pre.poolUpdates[j].newValue
       /\ poolUpdates[Len(poolUpdates)].newValue # last.pre.poolUpdates[j].newValue

====
